---- MODULE Spec2Model ----
(***************************************************************************)
(* LoRa alert system: transmitter (fire / quake detection), hybrid relay   *)
(* (validation, deduplication, distance-gated forwarding) and receiver.    *)
(*                                                                         *)
(* Conventions                                                             *)
(*  - A C string is a sequence of one-character strings (no NUL inside).   *)
(*  - millis() of a node is its clock variable; every loop iteration reads *)
(*    it once more after a step drawn from a small set.                    *)
(*  - A float that carries a coordinate or a magnitude is an integer in    *)
(*    millionths (the six decimals of the wire format).  A distance is an  *)
(*    integer in centimetres.                                              *)
(***************************************************************************)
EXTENDS Integers, Sequences, FiniteSets, TLC

VARIABLES
  \* ---- hybrid relay (Intermediate_Nod.ino) ----
  relayClock,               \* millis() of the relay at its latest loop start
  messageCache,             \* [0..CACHE_SIZE-1 -> [msg, timestamp]]
  cacheIndex,
  messagesReceived,
  messagesForwardedLoRa,
  messagesForwardedEspNow,
  messagesDuplicate,
  lastStatsDisplay,
  rxLedOffTime, txLedOffTime,
  rxLedPin, txLedPin,       \* TRUE = HIGH
  relayHalted,              \* LoRa.begin failed: setup() never returned
  relayVariant,             \* "hybrid" (Intermediate_Nod.ino) | "plain" (the
                            \*   relay sketch of Transmitter.ino)
  relayPc,                  \* "loop" | "delay": the plain relay inside
                            \*   delay(random(50, 150)) of forwardMessage
  relayJitter,              \* the delay drawn, 0 outside of it
  relayAir,                 \* the packet that reached the radio during the
                            \*   delay, NoPacket if none
  espNowReady,              \* esp_now_init() returned 0
  \* ---- what the latest relay loop iteration did (observation only) ----
  relayMsg,                 \* the text read into msg[], or NoPacket
  relayOutcome,             \* "idle" | "invalid" | "duplicate" | "forward"
  relayTx,                  \* [via, msg, ok, cached] of the send attempted, or
                            \*   NoTx; cached: isDuplicate(msg) as the send began
  recordCount,              \* number of cacheMessage calls so far
  lastRec,                  \* text -> its latest record (and forward attempt):
                            \*   at, rec: the time and the number of that record
                            \*   prevAt, prevRec: those of the one before, or -1
  seen,                     \* valid text -> [at, rec]: when it was last received,
                            \*   and recordCount after that reception
  nextFresh,                \* environment: index of the next new GPS payload
  \* ---- receiver (Receiver.ino) ----
  rxClock,                  \* millis() of the receiver at its latest loop start
  displayReady,             \* the OLED answered in setup()
  screen,                   \* what the OLED shows
  buzzer,                   \* [active, isHigh, beepsRemaining, beepDuration, nextToggle]
  buzzerPin,                \* TRUE = HIGH
  lastAlertTime,
  alertDisplayed,
  rxLoraInbox,              \* packets the receiver's LoRa radio holds, oldest first
  rxEspNowInbox,            \* ESP-NOW frames delivered to the receiver's WiFi radio
  rxHalted,                 \* LoRa.begin failed: setup() never returned
  \* ---- what the receiver did (observation only) ----
  rxAccepted,               \* alerts shown and sounded so far
  rxBeeps,                  \* times the buzzer pin went HIGH since the latest
                            \*   accepted alert
  rxLastType,               \* the kind of the latest accepted alert
  rxQuiet,                  \* the latest receiver iteration found no packet and
                            \*   nothing was delivered since
  \* ---- transmitter (Transmitter.ino: live-GPS and demo-coordinates sketches) ----
  txVariant,                \* "gps" | "demo"
  txClock,                  \* millis() of the transmitter at its latest loop start
  loraReady,                \* FALSE: LoRa.begin failed, setup() never returned
  accelReady,
  fireCount,
  lastFireAlert, lastQuakeAlert,
  filteredAccel,            \* in hundredths of g
  quakeWindow,              \* [0..WINDOW_SIZE-1 -> {0, 1}]
  windowIndex,
  ledTurnOffTime, ledPin,
  lastStatusPrint, loopCount,
  gpsFix,                   \* [valid, lat, lng, sats]: what TinyGPS++ holds
  \* ---- what the latest transmitter iteration did (observation only) ----
  txFlame,                  \* the flame reading it took
  txFlames,                 \* the flame readings of the latest iterations,
                            \*   newest last, at most FLAME_SAMPLES_NEEDED
  txCountChecked,           \* fireCount as the alert check saw it
  txVotes,                  \* the votes computed so far, newest last, at most
                            \*   WINDOW_SIZE of them
  txSent,                   \* the payloads it sent, in order
  txSentLog,                \* kind -> [n, at]: how many alerts of that kind
                            \*   were sent before (2 for two or more) and the
                            \*   time of the latest, -1 for none
  \* ---- a function of the program applied on its own ----
  probe                     \* [fn, arg, out], out "pending" until applied

relayVars == << relayClock, messageCache, cacheIndex, messagesReceived,
                messagesForwardedLoRa, messagesForwardedEspNow,
                messagesDuplicate, lastStatsDisplay, rxLedOffTime,
                txLedOffTime, rxLedPin, txLedPin, relayMsg, relayOutcome,
                relayTx, recordCount, lastRec, seen, nextFresh, relayHalted,
                espNowReady, relayVariant, relayPc, relayJitter, relayAir >>

rxVars == << rxClock, displayReady, screen, buzzer, buzzerPin, lastAlertTime,
             alertDisplayed, rxLoraInbox, rxEspNowInbox, rxAccepted, rxQuiet,
             rxHalted, rxBeeps, rxLastType >>

txVars == << txVariant, txClock, loraReady, accelReady, fireCount,
             lastFireAlert, lastQuakeAlert, filteredAccel, quakeWindow,
             windowIndex, ledTurnOffTime, ledPin, lastStatusPrint, loopCount,
             gpsFix, txFlame, txFlames, txCountChecked, txVotes, txSent,
             txSentLog >>

vars == << relayVars, rxVars, txVars, probe >>

-----------------------------------------------------------------------------
(* Bounds of the model *)

MaxRelayClock == 5030      \* the relay's clock stops here
MaxReceived == 3           \* packets of the mixed traffic
MaxBurst == 12             \* packets of the burst traffic
MaxLinkReceived == 2       \* packets the relay takes while the receiver runs
MaxRxClock == 900          \* the receiver's clock stops here
MaxFireClock == 15000      \* the transmitter's clock stops here (fire traffic)
MaxQuakeClock == 20000     \* the transmitter's clock stops here (quake traffic)
MaxTxClock == 20000        \* the transmitter's clock stops here (both sensors)
MaxBuzzClock == 2400       \* the receiver's clock stops here (buzzer)
MaxDisplayClock == 25010   \* the receiver's clock stops here (display)
MaxAlerts == 2             \* alerts the receiver accepts on its own
MaxPlainReceived == 2      \* packets the plain relay takes
MaxLongReceived == 3       \* packets of the long-payload traffic
MaxPayload == 65           \* bytes of the longest payload
MaxPlainClock == 5300      \* the plain relay's clock stops here
MaxBootClock == 7500       \* the transmitter's clock stops here (after boot)
MaxStartClock == 7500      \* the transmitter's clock stops here (first iterations)
ProbeDistLow == 4900       \* distances handed to selectTransport, in cm
ProbeDistHigh == 5100
MaxFields == 4             \* comma-separated fields of a text handed to parseMessage

(* Program constants *)

CACHE_SIZE == 10
DEDUPE_WINDOW == 5000
RELAY_LED_BLINK_MS == 300
RELAY_MSG_BUF == 64
ESPNOW_MSG_BUF == 64
JITTER_MIN == 50
JITTER_MAX == 150
STATS_PERIOD == 10000
DISTANCE_THRESHOLD_METERS == 50
DISPLAY_TIMEOUT == 15000
FLAME_SAMPLES_NEEDED == 3
FIRE_MIN_INTERVAL == 5000
QUAKE_MIN_INTERVAL == 5000
QUAKE_VOTES_NEEDED == 4
QUAKE_THRESHOLD == 12      \* 0.12 g, in hundredths
WINDOW_SIZE == 10
TX_LED_BLINK_MS == 200
STATUS_PERIOD == 1000
CALIBRATION_SAMPLES == 10
RX_MSG_BUF == 80
BEEP_GAP == 120
RECEIVER_LAT == 30768885
RECEIVER_LNG == 76575211

\* unsigned long arithmetic.  millis() wraps after 2^32 ms (49.7 days); every
\* clock of this model stays far below that, so no operation wraps.
USub(a, b) == a - b
UAdd(a, b) == a + b

Min(a, b) == IF a < b THEN a ELSE b

\* faulty variant: loop() runs although setup() is still blinking
LoopRuns_Always(halted) == TRUE

\* loop() is entered only after setup() has returned; on a failed LoRa.begin
\* setup() stays in its while (1)
LoopRuns(halted) == ~halted

-----------------------------------------------------------------------------
(* C strings *)

NUL == "NUL"
\* LoRa.parsePacket() returns 0 when no packet (or an empty one) is waiting
NoPacket == << >>
NoTx == [via |-> "none", msg |-> << >>, ok |-> FALSE, cached |-> FALSE]

CharAt(s, i) == IF i <= Len(s) THEN s[i] ELSE NUL

\* strncmp(a, b, n) == 0
StrNEq(a, b, n) ==
  \A i \in 1..n :
    \/ CharAt(a, i) = CharAt(b, i)
    \/ \E j \in 1..(i - 1) : CharAt(a, j) = NUL /\ CharAt(b, j) = NUL

\* strchr(s + from - 1, c): index of the first c at or after from, 0 if none
RECURSIVE StrChr(_, _, _)
StrChr(s, c, from) ==
  IF from > Len(s) THEN 0
  ELSE IF s[from] = c THEN from
  ELSE StrChr(s, c, from + 1)

Digit == [c \in {"0", "1", "2", "3", "4", "5", "6", "7", "8", "9"} |->
            CASE c = "0" -> 0 [] c = "1" -> 1 [] c = "2" -> 2 [] c = "3" -> 3
              [] c = "4" -> 4 [] c = "5" -> 5 [] c = "6" -> 6 [] c = "7" -> 7
              [] c = "8" -> 8 [] c = "9" -> 9]

DigitChar == << "0", "1", "2", "3", "4", "5", "6", "7", "8", "9" >>

IsDigit(c) == c \in DOMAIN Digit

RECURSIVE Pow10(_)
Pow10(n) == IF n = 0 THEN 1 ELSE 10 * Pow10(n - 1)

\* integer part: << value, position after the digits >>
RECURSIVE ScanInt(_, _, _)
ScanInt(s, p, acc) ==
  IF IsDigit(CharAt(s, p)) THEN ScanInt(s, p + 1, 10 * acc + Digit[s[p]])
  ELSE << acc, p >>

\* fraction digits, kept to millionths
RECURSIVE ScanFrac(_, _, _, _)
ScanFrac(s, p, acc, left) ==
  IF IsDigit(CharAt(s, p))
  THEN IF left > 0 THEN ScanFrac(s, p + 1, 10 * acc + Digit[s[p]], left - 1)
       ELSE ScanFrac(s, p + 1, acc, 0)
  ELSE acc * Pow10(left)

RECURSIVE SkipSpaces(_, _)
SkipSpaces(s, p) == IF CharAt(s, p) = " " THEN SkipSpaces(s, p + 1) ELSE p

\* atof(s + p - 1), in millionths: blanks, sign, digits, '.', digits; a text
\* with no number gives 0
Atof(s, p) ==
  LET q    == SkipSpaces(s, p)
      neg  == CharAt(s, q) = "-"
      q1   == IF CharAt(s, q) \in {"-", "+"} THEN q + 1 ELSE q
      ip   == ScanInt(s, q1, 0)
      frac == IF CharAt(s, ip[2]) = "." THEN ScanFrac(s, ip[2] + 1, 0, 6) ELSE 0
      mag  == ip[1] * 1000000 + frac
  IN  IF neg THEN 0 - mag ELSE mag

RECURSIVE Digits(_)
Digits(n) ==
  IF n < 10 THEN << DigitChar[n + 1] >>
  ELSE Digits(n \div 10) \o << DigitChar[(n % 10) + 1] >>

\* faulty variant: the fraction is printed without its leading zeros
FmtFixed_NoPad(v, d) ==
  LET a == IF v < 0 THEN 0 - v ELSE v
  IN  (IF v < 0 THEN << "-" >> ELSE << >>)
      \o Digits(a \div Pow10(d)) \o << "." >> \o Digits(a % Pow10(d))

RECURSIVE ZeroPad(_, _)
ZeroPad(s, d) == IF Len(s) >= d THEN s ELSE ZeroPad(<< "0" >> \o s, d)

\* "%.<d>f" of the value v / 10^d
FmtFixed(v, d) ==
  LET a == IF v < 0 THEN 0 - v ELSE v
  IN  (IF v < 0 THEN << "-" >> ELSE << >>)
      \o Digits(a \div Pow10(d)) \o << "." >> \o ZeroPad(Digits(a % Pow10(d)), d)

S_FIRE == << "F", "I", "R", "E" >>
S_QUAKE == << "Q", "U", "A", "K", "E" >>
S_EARTHQUAKE == << "E", "A", "R", "T", "H", "Q", "U", "A", "K", "E" >>
S_SATS == << ",", "S", "a", "t", "s", ":" >>
COMMA == << "," >>

-----------------------------------------------------------------------------
(* Wire payloads as the transmitter formats them *)

\* snprintf(payload, 64, "%s,%.6f,%.6f,%.2f", type, lat, lng, extra)
\* lat, lng in millionths of a degree, extra in hundredths
DemoPayload(type, lat, lng, extra) ==
  LET full == type \o COMMA \o FmtFixed(lat, 6) \o COMMA \o FmtFixed(lng, 6)
                   \o COMMA \o FmtFixed(extra, 2)
  IN  SubSeq(full, 1, Min(Len(full), 63))

\* snprintf(payload, 80, "%s,%.6f,%.6f,%.2f,Sats:%u", type, lat, lng, extra, sats)
GpsPayload(type, lat, lng, extra, sats) ==
  LET full == type \o COMMA \o FmtFixed(lat, 6) \o COMMA \o FmtFixed(lng, 6)
                   \o COMMA \o FmtFixed(extra, 2) \o S_SATS \o Digits(sats)
  IN  SubSeq(full, 1, Min(Len(full), 79))

\* the coordinates both transmitters fall back to, as "%.6f" prints them
SAMPLE_LAT == 30768885
SAMPLE_LNG == 76575211
\* a GPS fix some 48 km away from the receiver
FAR_LAT == 31000000
FAR_LNG == 77000000

NearFire == DemoPayload(S_FIRE, SAMPLE_LAT, SAMPLE_LNG, 100)
NearQuake == DemoPayload(S_QUAKE, SAMPLE_LAT, SAMPLE_LNG, 15)
FarFire(k) == GpsPayload(S_FIRE, FAR_LAT, FAR_LNG, 100, k)
FarQuake == GpsPayload(S_QUAKE, FAR_LAT, FAR_LNG, 15, 7)

\* texts no transmitter of this repository emits
EqText == S_EARTHQUAKE \o COMMA \o FmtFixed(FAR_LAT, 6) \o COMMA
            \o FmtFixed(FAR_LNG, 6) \o COMMA \o FmtFixed(50, 2)
Noise == << "H", "E", "L", "L", "O" >>
FireNoFields == << "F", "I", "R", "E", "X" >>

-----------------------------------------------------------------------------
(* Hybrid relay: Intermediate_Nod.ino *)

\* faulty variant: the read stops one byte early
ReadPacket_OneShort(payload) ==
  SubSeq(payload, 1, Min(Len(payload), RELAY_MSG_BUF - 2))

\* while (LoRa.available() && idx < sizeof(msg) - 1) msg[idx++] = LoRa.read();
ReadPacket(payload) == SubSeq(payload, 1, Min(Len(payload), RELAY_MSG_BUF - 1))

isValidMessage(msg) ==
  \/ StrNEq(msg, S_FIRE, 4)
  \/ StrNEq(msg, S_EARTHQUAKE, 10)

\* faulty variant: a matching slot counts whatever its age
RECURSIVE DupFrom_NoAge(_, _, _, _)
DupFrom_NoAge(cache, msg, now, i) ==
  IF i >= CACHE_SIZE THEN FALSE
  ELSE IF cache[i].msg = msg THEN TRUE
  ELSE DupFrom_NoAge(cache, msg, now, i + 1)

RECURSIVE DupFrom(_, _, _, _)
DupFrom(cache, msg, now, i) ==
  IF i >= CACHE_SIZE THEN FALSE
  ELSE IF cache[i].msg = msg /\ USub(now, cache[i].timestamp) < DEDUPE_WINDOW
       THEN TRUE
       ELSE DupFrom(cache, msg, now, i + 1)

\* faulty variant: an age of exactly DEDUPE_WINDOW still counts
isDuplicate_Inclusive(cache, msg, now) ==
  \E i \in 0..(CACHE_SIZE - 1) :
    cache[i].msg = msg /\ USub(now, cache[i].timestamp) <= DEDUPE_WINDOW

\* faulty variant: the scan starts at slot 1
isDuplicate_SkipFirst(cache, msg, now) == DupFrom(cache, msg, now, 1)

isDuplicate(cache, msg, now) == DupFrom(cache, msg, now, 0)

\* faulty variant: a hit stamps the matching slots anew
CacheAfterHit_Refreshed(cache, msg, now) ==
  [i \in DOMAIN cache |->
     IF cache[i].msg = msg THEN [cache[i] EXCEPT !.timestamp = now]
     ELSE cache[i]]

\* the cache after isDuplicate(msg) has returned true and loop() has counted
\* the duplicate: both only read it
CacheAfterHit(cache, msg, now) == cache

\* strncpy(espMsg.msg, msg, sizeof(espMsg.msg) - 1) and the NUL behind it
EspNowText(msg) == SubSeq(msg, 1, Min(Len(msg), ESPNOW_MSG_BUF - 1))

\* faulty variant: the slot's timestamp is left as it was
cacheMessage_NoStamp(cache, idx, msg, now) ==
  [cache EXCEPT ![idx].msg = SubSeq(msg, 1, Min(Len(msg), RELAY_MSG_BUF - 1))]

\* the cache after cacheMessage(msg) at millis() = now
cacheMessage(cache, idx, msg, now) ==
  [cache EXCEPT ![idx] =
     [msg |-> SubSeq(msg, 1, Min(Len(msg), RELAY_MSG_BUF - 1)),
      timestamp |-> now]]

\* faulty variant: the index wraps one slot early
NextCacheIndex_WrapsEarly(idx) == (idx + 1) % (CACHE_SIZE - 1)

\* cacheIndex = (cacheIndex + 1) % CACHE_SIZE
NextCacheIndex(idx) == (idx + 1) % CACHE_SIZE

\* faulty variant: forwardMessage(msg) is called before cacheMessage(msg)
CacheAtSend_Late(cache, idx, msg, now) == cache

\* the cache as forwardMessage(msg) finds it: cacheMessage(msg) has returned
CacheAtSend(cache, idx, msg, now) == cacheMessage(cache, idx, msg, now)

\* forwardMessage, lines 190-196: << transLat, transLng >> in millionths
ParseCoords(msg) ==
  LET p1 == StrChr(msg, ",", 1)
      p2 == IF p1 = 0 THEN 0 ELSE StrChr(msg, ",", p1 + 1)
  IN  << IF p1 = 0 THEN 0 ELSE Atof(msg, p1 + 1),
         IF p2 = 0 THEN 0 ELSE Atof(msg, p2 + 1) >>

\* The haversine distance in centimetres, as the single-precision formula of
\* the source evaluates on the coordinates this model uses.
calculateDistance(lat1, lon1, lat2, lon2) ==
  CASE lat1 = lat2 /\ lon1 = lon2                -> 0
    [] lat1 = 30769333 /\ lon1 = lon2            -> 4984
    [] lat1 = 30769334 /\ lon1 = lon2            -> 5005
    [] lat1 = FAR_LAT /\ lon1 = FAR_LNG          -> 4799641
    [] lat1 = 0 /\ lon1 = 0                      -> 872802000
    [] OTHER                                     -> 872802000

\* faulty variant: the threshold itself still selects ESP-NOW
selectTransport_Inclusive(dist) ==
  IF dist <= DISTANCE_THRESHOLD_METERS * 100 THEN "espnow" ELSE "lora"

\* if (dist < DISTANCE_THRESHOLD_METERS) ESP-NOW else LoRa
selectTransport(dist) ==
  IF dist < DISTANCE_THRESHOLD_METERS * 100 THEN "espnow" ELSE "lora"

\* faulty variant: the attempt is counted whatever the send returned
CountForward_Always(count, chosen, ok) ==
  IF chosen THEN count + 1 ELSE count

\* faulty variant: a send that succeeded is counted for both transports
CountForward_Either(count, chosen, ok) ==
  IF ok THEN count + 1 ELSE count

\* a forwarded counter after the send of the chosen branch returned ok
CountForward(count, chosen, ok) ==
  IF chosen /\ ok THEN count + 1 ELSE count

\* faulty variant: the packet is counted after it has passed validation
ReceivedAfter_ValidOnly(count, msg) ==
  IF isValidMessage(msg) THEN count + 1 ELSE count

\* messagesReceived++ right after the packet has been read
ReceivedAfter(count, msg) == count + 1

EmptySlot == [msg |-> << >>, timestamp |-> 0]

\* the slot written last
LastSlot(idx) == (idx + CACHE_SIZE - 1) % CACHE_SIZE

\* faulty variant: a failed send takes the message out of the cache
CacheAfterSend_Forgets(cache, idx, ok) ==
  IF ok THEN cache ELSE [cache EXCEPT ![idx] = EmptySlot]

\* the cache after forwardMessage(msg), whose slot is idx: the failure
\* branches print a line and nothing else
CacheAfterSend(cache, idx, ok) == cache

RelayInit ==
  /\ relayClock = 0
  /\ messageCache = [i \in 0..(CACHE_SIZE - 1) |-> EmptySlot]
  /\ cacheIndex = 0
  /\ messagesReceived = 0
  /\ messagesForwardedLoRa = 0
  /\ messagesForwardedEspNow = 0
  /\ messagesDuplicate = 0
  /\ lastStatsDisplay = 0
  /\ rxLedOffTime = 0
  /\ txLedOffTime = 0
  /\ rxLedPin = FALSE
  /\ txLedPin = FALSE
  /\ relayMsg = NoPacket
  /\ relayOutcome = "idle"
  /\ relayTx = NoTx
  /\ recordCount = 0
  /\ lastRec = << >>
  /\ seen = << >>
  /\ nextFresh = 0
  /\ relayHalted \in BOOLEAN
  /\ espNowReady \in BOOLEAN
  /\ relayVariant \in {"hybrid", "plain"}
  /\ relayPc = "loop"
  /\ relayJitter = 0
  /\ relayAir = NoPacket

\* the statistics block at the end of loop()
StatsAfter(now) ==
  IF USub(now, lastStatsDisplay) >= STATS_PERIOD THEN now ELSE lastStatsDisplay

\* One iteration of loop(): payload is the packet LoRa.parsePacket() found
\* (NoPacket when none), dt the time since the previous iteration started,
\* sendOk the result of the send primitive if one is called.
RelayLoop(payload, dt, sendOk) ==
  /\ LoopRuns(relayHalted)
  /\ relayVariant = "hybrid"
  /\ UNCHANGED << relayHalted, espNowReady, relayVariant, relayPc,
                  relayJitter, relayAir >>
  /\ LET now    == UAdd(relayClock, dt)
         rxPin0 == IF now >= rxLedOffTime /\ rxLedPin THEN FALSE ELSE rxLedPin
         txPin0 == IF now >= txLedOffTime /\ txLedPin THEN FALSE ELSE txLedPin
         msg    == ReadPacket(payload)
     IN
     /\ relayClock' = now
     /\ IF payload = NoPacket
        THEN /\ relayMsg' = NoPacket
             /\ relayOutcome' = "idle"
             /\ relayTx' = NoTx
             /\ rxLedPin' = rxPin0
             /\ txLedPin' = txPin0
             /\ lastStatsDisplay' = StatsAfter(now)
             /\ UNCHANGED << messageCache, cacheIndex, messagesReceived,
                             messagesForwardedLoRa, messagesForwardedEspNow,
                             messagesDuplicate, rxLedOffTime, txLedOffTime,
                             recordCount, lastRec, seen >>
        ELSE
          /\ relayMsg' = msg
          /\ messagesReceived' = ReceivedAfter(messagesReceived, msg)
          \* blinkRxLed()
          /\ rxLedPin' = TRUE
          /\ rxLedOffTime' = UAdd(now, RELAY_LED_BLINK_MS)
          /\ IF ~isValidMessage(msg)
             THEN /\ relayOutcome' = "invalid"
                  /\ relayTx' = NoTx
                  /\ txLedPin' = txPin0
                  /\ UNCHANGED << messageCache, cacheIndex,
                                  messagesForwardedLoRa,
                                  messagesForwardedEspNow, messagesDuplicate,
                                  lastStatsDisplay, txLedOffTime, recordCount,
                                  lastRec, seen >>
             ELSE IF isDuplicate(messageCache, msg, now)
             THEN /\ relayOutcome' = "duplicate"
                  /\ relayTx' = NoTx
                  /\ messagesDuplicate' = messagesDuplicate + 1
                  /\ txLedPin' = txPin0
                  /\ seen' = (msg :> [at |-> now, rec |-> recordCount]) @@ seen
                  /\ messageCache' = CacheAfterHit(messageCache, msg, now)
                  /\ UNCHANGED << cacheIndex, messagesForwardedLoRa,
                                  messagesForwardedEspNow, lastStatsDisplay,
                                  txLedOffTime, recordCount, lastRec >>
             ELSE
               LET xy   == ParseCoords(msg)
                   dist == calculateDistance(xy[1], xy[2],
                                             RECEIVER_LAT, RECEIVER_LNG)
                   via  == selectTransport(dist)
               IN
               /\ relayOutcome' = "forward"
               /\ messageCache' =
                    CacheAfterSend(cacheMessage(messageCache, cacheIndex, msg, now),
                                   cacheIndex, sendOk)
               /\ cacheIndex' = NextCacheIndex(cacheIndex)
               /\ recordCount' = recordCount + 1
               /\ lastRec' =
                    (msg :> [at |-> now, rec |-> recordCount + 1,
                             prevAt  |-> IF msg \in DOMAIN lastRec
                                         THEN lastRec[msg].at ELSE -1,
                             prevRec |-> IF msg \in DOMAIN lastRec
                                         THEN lastRec[msg].rec ELSE -1])
                    @@ lastRec
               /\ seen' = (msg :> [at |-> now, rec |-> recordCount + 1]) @@ seen
               /\ relayTx' =
                    [via |-> via,
                     msg |-> IF via = "espnow" THEN EspNowText(msg) ELSE msg,
                     ok |-> sendOk,
                     cached |-> isDuplicate(CacheAtSend(messageCache, cacheIndex,
                                                        msg, now), msg, now)]
               /\ messagesForwardedEspNow' =
                    CountForward(messagesForwardedEspNow, via = "espnow", sendOk)
               /\ messagesForwardedLoRa' =
                    CountForward(messagesForwardedLoRa, via = "lora", sendOk)
               \* blinkTxLed() on success
               /\ txLedPin' = IF sendOk THEN TRUE ELSE txPin0
               /\ txLedOffTime' =
                    IF sendOk THEN UAdd(now, RELAY_LED_BLINK_MS) ELSE txLedOffTime
               /\ lastStatsDisplay' = StatsAfter(now)
               /\ UNCHANGED messagesDuplicate

\* What the relay's radio hears.  A packet follows the previous iteration
\* after PacketGap ms or after a quiet stretch of LongStep ms; an iteration
\* that finds no packet stands for a quiet stretch.
PacketGap == 1
QuietStep == 2500
LongStep == 5000

RelayEnv(payload, dt, sendOk, limit) ==
  /\ relayClock + dt <= MaxRelayClock
  /\ payload = NoPacket => dt # PacketGap /\ sendOk
  /\ payload # NoPacket => messagesReceived < limit
  /\ RelayLoop(payload, dt, sendOk)
  /\ nextFresh' = IF payload = FarFire(nextFresh) THEN nextFresh + 1
                  ELSE nextFresh

\* mixed traffic: every kind of text, sends that succeed or fail
MixedTexts == {NearFire, NearQuake, EqText, Noise, FarFire(0)}

RelayMixed ==
  \E payload \in MixedTexts \cup {NoPacket}, dt \in {PacketGap, QuietStep},
     sendOk \in BOOLEAN :
    RelayEnv(payload, dt, sendOk, MaxReceived)

\* burst traffic: one alert repeated among ever new ones
RelayBurst ==
  \E payload \in {NearFire, FarFire(nextFresh), NoPacket},
     dt \in {PacketGap, LongStep} :
    RelayEnv(payload, dt, TRUE, MaxBurst)

\* text grown to n bytes by further digits of its last field
Padded(text, n) == text \o [i \in 1..(n - Len(text)) |-> "0"]

\* payloads that fill the relay's buffer, or do not fit
LongTexts ==
  { Padded(t, n) : t \in {NearFire, FarFire(0)},
                   n \in (RELAY_MSG_BUF - 2)..MaxPayload }

RelayLong ==
  \E payload \in LongTexts \cup {NoPacket}, dt \in {PacketGap, LongStep},
     sendOk \in BOOLEAN :
    RelayEnv(payload, dt, sendOk, MaxLongReceived)

-----------------------------------------------------------------------------
(* Plain relay: the relay sketch of Transmitter.ino.  Its globals are those *)
(* of the hybrid relay, with messagesForwarded held in                      *)
(* messagesForwardedLoRa; relayClock is millis() at its latest step.        *)

\* of the values lo..(hi - 1) that random(lo, hi) returns: the least, the
\* middle one and the greatest
Random(lo, hi) == {lo, (lo + hi) \div 2, hi - 1}

\* faulty variant: loop() goes on while forwardMessage is in its delay
Stalled_Never(pc) == FALSE

\* delay() does not return to loop() before its time is up
Stalled(pc) == pc = "delay"

\* a packet reaches the radio, which holds one packet
PlainArrive(limit) ==
  /\ relayVariant = "plain"
  /\ relayAir = NoPacket
  /\ messagesReceived < limit \/ relayPc = "delay"
  /\ relayAir' \in {NearFire, FarFire(0), Noise}
  /\ UNCHANGED << relayClock, messageCache, cacheIndex, messagesReceived,
                  messagesForwardedLoRa, messagesForwardedEspNow,
                  messagesDuplicate, lastStatsDisplay, rxLedOffTime,
                  txLedOffTime, rxLedPin, txLedPin, relayMsg, relayOutcome,
                  relayTx, recordCount, lastRec, seen, nextFresh, relayHalted,
                  espNowReady, relayVariant, relayPc, relayJitter >>

\* loop() from its start to its end or, for a message to forward, to the
\* delay at the start of forwardMessage; dt is the time since the latest step
PlainLoop(dt) ==
  /\ LoopRuns(relayHalted)
  /\ relayVariant = "plain"
  /\ ~Stalled(relayPc)
  /\ UNCHANGED << relayHalted, espNowReady, relayVariant, nextFresh,
                  messagesForwardedLoRa, messagesForwardedEspNow,
                  txLedOffTime >>
  /\ LET now    == UAdd(relayClock, dt)
         rxPin0 == IF now >= rxLedOffTime /\ rxLedPin THEN FALSE ELSE rxLedPin
         txPin0 == IF now >= txLedOffTime /\ txLedPin THEN FALSE ELSE txLedPin
         msg    == ReadPacket(relayAir)
     IN
     /\ relayClock' = now
     /\ relayAir' = NoPacket
     /\ relayTx' = NoTx
     /\ txLedPin' = txPin0
     /\ IF relayAir = NoPacket
        THEN /\ relayMsg' = NoPacket
             /\ relayOutcome' = "idle"
             /\ rxLedPin' = rxPin0
             /\ lastStatsDisplay' = StatsAfter(now)
             /\ UNCHANGED << messageCache, cacheIndex, messagesReceived,
                             messagesDuplicate, rxLedOffTime, recordCount,
                             lastRec, seen, relayPc, relayJitter >>
        ELSE
          /\ relayMsg' = msg
          /\ messagesReceived' = ReceivedAfter(messagesReceived, msg)
          /\ rxLedPin' = TRUE
          /\ rxLedOffTime' = UAdd(now, RELAY_LED_BLINK_MS)
          /\ lastStatsDisplay' = lastStatsDisplay
          /\ IF ~isValidMessage(msg)
             THEN /\ relayOutcome' = "invalid"
                  /\ UNCHANGED << messageCache, cacheIndex, messagesDuplicate,
                                  recordCount, lastRec, seen, relayPc,
                                  relayJitter >>
             ELSE IF isDuplicate(messageCache, msg, now)
             THEN /\ relayOutcome' = "duplicate"
                  /\ messagesDuplicate' = messagesDuplicate + 1
                  /\ seen' = (msg :> [at |-> now, rec |-> recordCount]) @@ seen
                  /\ messageCache' = CacheAfterHit(messageCache, msg, now)
                  /\ UNCHANGED << cacheIndex, recordCount, lastRec, relayPc,
                                  relayJitter >>
             ELSE
               /\ relayOutcome' = "forward"
               /\ messageCache' = cacheMessage(messageCache, cacheIndex, msg, now)
               /\ cacheIndex' = NextCacheIndex(cacheIndex)
               /\ recordCount' = recordCount + 1
               /\ lastRec' =
                    (msg :> [at |-> now, rec |-> recordCount + 1,
                             prevAt  |-> IF msg \in DOMAIN lastRec
                                         THEN lastRec[msg].at ELSE -1,
                             prevRec |-> IF msg \in DOMAIN lastRec
                                         THEN lastRec[msg].rec ELSE -1])
                    @@ lastRec
               /\ seen' = (msg :> [at |-> now, rec |-> recordCount + 1]) @@ seen
               \* forwardMessage: delay(random(50, 150));
               /\ relayPc' = "delay"
               /\ relayJitter' \in Random(JITTER_MIN, JITTER_MAX)
               /\ UNCHANGED messagesDuplicate

\* the delay is over: forwardMessage sends and returns, loop() runs to its
\* end with the now it read at its start.  A packet that reached the radio
\* during the delay may not survive the transmission (lost).
PlainSend(sendOk, lost) ==
  /\ LoopRuns(relayHalted)
  /\ relayVariant = "plain"
  /\ relayPc = "delay"
  /\ lost => relayAir # NoPacket
  /\ LET sent == UAdd(relayClock, relayJitter)
     IN  /\ relayClock' = sent
         /\ relayTx' = [via |-> "lora", msg |-> relayMsg, ok |-> sendOk,
                        cached |-> isDuplicate(messageCache, relayMsg, sent)]
         /\ messagesForwardedLoRa' =
              CountForward(messagesForwardedLoRa, TRUE, sendOk)
         /\ txLedPin' = IF sendOk THEN TRUE ELSE txLedPin
         /\ txLedOffTime' =
              IF sendOk THEN UAdd(sent, RELAY_LED_BLINK_MS) ELSE txLedOffTime
  /\ lastStatsDisplay' = StatsAfter(relayClock)
  /\ relayPc' = "loop"
  /\ relayJitter' = 0
  /\ relayAir' = IF lost THEN NoPacket ELSE relayAir
  /\ messageCache' = CacheAfterSend(messageCache, LastSlot(cacheIndex), sendOk)
  /\ UNCHANGED << cacheIndex, messagesReceived,
                  messagesForwardedEspNow, messagesDuplicate, rxLedOffTime,
                  rxLedPin, relayMsg, relayOutcome, recordCount, lastRec, seen,
                  nextFresh, relayHalted, espNowReady, relayVariant >>

\* the plain relay with alerts and noise reaching its radio at any time
PlainArrives == PlainArrive(MaxPlainReceived)

LedStep == 200

\* an iteration follows the latest step after PacketGap or LedStep ms if a
\* packet is waiting, after LongStep ms with or without one
PlainLoops ==
  \E dt \in {PacketGap, LedStep, LongStep} :
    /\ relayClock + dt <= MaxPlainClock
    /\ dt # LongStep => relayAir # NoPacket
    /\ PlainLoop(dt)

PlainSends == \E sendOk \in BOOLEAN, lost \in BOOLEAN : PlainSend(sendOk, lost)

-----------------------------------------------------------------------------
(* Receiver: Receiver.ino *)

T_NONE == "NONE"
T_FIRE == "FIRE"
T_QUAKE == "QUAKE"

\* faulty variant: the second comma is looked for from the start of the text
parseMessage_SameComma(msg) ==
  LET type == IF StrNEq(msg, S_FIRE, 4) THEN T_FIRE
              ELSE IF StrNEq(msg, S_QUAKE, 5) THEN T_QUAKE
              ELSE T_NONE
      p1 == StrChr(msg, ",", 1)
      p2 == p1
      p3 == IF p2 = 0 THEN 0 ELSE StrChr(msg, ",", p2 + 1)
  IN  IF type = T_NONE
      THEN [type |-> T_NONE, lat |-> 0, lng |-> 0, extra |-> 0]
      ELSE [type  |-> type,
            lat   |-> IF p1 = 0 THEN 0 ELSE Atof(msg, p1 + 1),
            lng   |-> IF p2 = 0 THEN 0 ELSE Atof(msg, p2 + 1),
            extra |-> IF p3 = 0 THEN 0 ELSE Atof(msg, p3 + 1)]

\* *type = NONE; *lat = *lng = *extra = 0.0f; strncmp on the kind, then one
\* strchr / atof per field, returning at the first comma that is missing
parseMessage(msg) ==
  LET type == IF StrNEq(msg, S_FIRE, 4) THEN T_FIRE
              ELSE IF StrNEq(msg, S_QUAKE, 5) THEN T_QUAKE
              ELSE T_NONE
      p1 == StrChr(msg, ",", 1)
      p2 == IF p1 = 0 THEN 0 ELSE StrChr(msg, ",", p1 + 1)
      p3 == IF p2 = 0 THEN 0 ELSE StrChr(msg, ",", p2 + 1)
  IN  IF type = T_NONE
      THEN [type |-> T_NONE, lat |-> 0, lng |-> 0, extra |-> 0]
      ELSE [type  |-> type,
            lat   |-> IF p1 = 0 THEN 0 ELSE Atof(msg, p1 + 1),
            lng   |-> IF p2 = 0 THEN 0 ELSE Atof(msg, p2 + 1),
            extra |-> IF p3 = 0 THEN 0 ELSE Atof(msg, p3 + 1)]

\* faulty variant: five beeps whatever the kind
startBuzzer_FiveBeeps(type, now) ==
  [active         |-> TRUE,
   isHigh         |-> TRUE,
   beepsRemaining |-> 5,
   beepDuration   |-> IF type = T_FIRE THEN 150 ELSE 300,
   nextToggle     |-> UAdd(now, IF type = T_FIRE THEN 150 ELSE 300)]

\* the buzzer after startBuzzer(type) at millis() = now; the pin goes HIGH
startBuzzer(type, now) ==
  [active         |-> TRUE,
   isHigh         |-> TRUE,
   beepsRemaining |-> IF type = T_FIRE THEN 5 ELSE 3,
   beepDuration   |-> IF type = T_FIRE THEN 150 ELSE 300,
   nextToggle     |-> UAdd(now, IF type = T_FIRE THEN 150 ELSE 300)]

\* << buzzer, pin >> after updateBuzzer() at millis() = now
updateBuzzer(b, pin, now) ==
  IF ~b.active THEN << b, pin >>
  ELSE IF now >= b.nextToggle
  THEN LET high == ~b.isHigh
       IN  IF ~high
           THEN IF (b.beepsRemaining - 1) % 256 = 0
                THEN << [b EXCEPT !.isHigh = FALSE, !.beepsRemaining = 0,
                                  !.active = FALSE], FALSE >>
                ELSE << [b EXCEPT !.isHigh = FALSE,
                                  !.beepsRemaining = (b.beepsRemaining - 1) % 256,
                                  !.nextToggle = UAdd(now, BEEP_GAP)], FALSE >>
           ELSE << [b EXCEPT !.isHigh = TRUE,
                             !.nextToggle = UAdd(now, b.beepDuration)], TRUE >>
  ELSE << b, pin >>

\* what displayAlert / showListeningScreen leave on the OLED
displayAlert(type, shown) == IF displayReady THEN type ELSE shown
showListeningScreen(shown) == IF displayReady THEN "listening" ELSE shown

\* faulty variant: the display is cleared at exactly DISPLAY_TIMEOUT
DisplayExpired_Inclusive(now, last) == USub(now, last) >= DISPLAY_TIMEOUT

\* millis() - lastAlertTime > DISPLAY_TIMEOUT
DisplayExpired(now, last) == USub(now, last) > DISPLAY_TIMEOUT

RxInit ==
  /\ rxClock = 0
  /\ displayReady \in BOOLEAN
  /\ screen = IF displayReady THEN "listening" ELSE "blank"
  /\ buzzer = [active |-> FALSE, isHigh |-> FALSE, beepsRemaining |-> 0,
               beepDuration |-> 0, nextToggle |-> 0]
  /\ buzzerPin = FALSE
  /\ lastAlertTime = 0
  /\ alertDisplayed = FALSE
  /\ rxLoraInbox = << >>
  /\ rxEspNowInbox = << >>
  /\ rxAccepted = 0
  /\ rxQuiet = FALSE
  /\ rxHalted \in BOOLEAN
  /\ rxBeeps = 0
  /\ rxLastType = T_NONE

\* One iteration of the receiver's loop(), dt ms after the previous one.  The
\* only source of packets is LoRa.parsePacket(): nothing reads rxEspNowInbox.
RxLoop(dt) ==
  LET now     == UAdd(rxClock, dt)
      ub      == updateBuzzer(buzzer, buzzerPin, now)
      timeout == alertDisplayed /\ DisplayExpired(now, lastAlertTime)
      screen1 == IF timeout THEN showListeningScreen(screen) ELSE screen
      shown1  == IF timeout THEN FALSE ELSE alertDisplayed
      packet  == IF rxLoraInbox = << >> THEN NoPacket ELSE Head(rxLoraInbox)
      msg     == SubSeq(packet, 1, Min(Len(packet), RX_MSG_BUF - 1))
      alert   == parseMessage(msg)
  IN
  /\ LoopRuns(rxHalted)
  /\ rxHalted' = rxHalted
  /\ rxClock' = now
  /\ displayReady' = displayReady
  /\ rxEspNowInbox' = rxEspNowInbox
  /\ rxBeeps' = IF packet # NoPacket /\ alert.type # T_NONE THEN 1
                ELSE IF ~buzzerPin /\ ub[2] THEN rxBeeps + 1
                ELSE rxBeeps
  /\ rxLastType' = IF packet # NoPacket /\ alert.type # T_NONE THEN alert.type
                   ELSE rxLastType
  /\ IF packet = NoPacket
     THEN /\ buzzer' = ub[1]
          /\ buzzerPin' = ub[2]
          /\ screen' = screen1
          /\ alertDisplayed' = shown1
          /\ rxQuiet' = TRUE
          /\ UNCHANGED << lastAlertTime, rxLoraInbox, rxAccepted >>
     ELSE /\ rxLoraInbox' = Tail(rxLoraInbox)
          /\ rxQuiet' = FALSE
          /\ IF alert.type # T_NONE
             THEN /\ screen' = displayAlert(alert.type, screen1)
                  /\ buzzer' = startBuzzer(alert.type, now)
                  /\ buzzerPin' = TRUE
                  /\ lastAlertTime' = now
                  /\ alertDisplayed' = TRUE
                  /\ rxAccepted' = rxAccepted + 1
             ELSE /\ buzzer' = ub[1]
                  /\ buzzerPin' = ub[2]
                  /\ screen' = screen1
                  /\ alertDisplayed' = shown1
                  /\ UNCHANGED << lastAlertTime, rxAccepted >>

-----------------------------------------------------------------------------
(* The relay and the receiver together.  A send that reports success puts  *)
(* the frame into the receiver's radio of that transport.                  *)

RxStep == 150

Deliver ==
  /\ rxLoraInbox' = IF relayTx'.ok /\ relayTx'.via = "lora"
                    THEN Append(rxLoraInbox, relayTx'.msg) ELSE rxLoraInbox
  /\ rxEspNowInbox' = IF relayTx'.ok /\ relayTx'.via = "espnow"
                      THEN Append(rxEspNowInbox, relayTx'.msg) ELSE rxEspNowInbox
  /\ rxQuiet' = IF relayTx'.ok THEN FALSE ELSE rxQuiet

LinkRelay ==
  /\ \E payload \in {NearFire, FarFire(0)}, sendOk \in BOOLEAN :
       RelayEnv(payload, PacketGap, sendOk, MaxLinkReceived)
  /\ Deliver
  /\ UNCHANGED << rxClock, displayReady, screen, buzzer, buzzerPin,
                  lastAlertTime, alertDisplayed, rxAccepted, rxHalted,
                  rxBeeps, rxLastType >>

LinkReceiver ==
  /\ rxClock + RxStep <= MaxRxClock
  /\ RxLoop(RxStep)
  /\ UNCHANGED relayVars

LinkNext == LinkRelay \/ LinkReceiver

-----------------------------------------------------------------------------
(* The receiver on its own: packets arrive at its LoRa radio *)

BuzzStep == 75
MaxJitter == 2

\* a packet arrives while the radio holds none
RxArrive(limit) ==
  /\ rxAccepted < limit
  /\ rxLoraInbox = << >>
  /\ \E packet \in {NearFire, NearQuake, Noise} :
       rxLoraInbox' = Append(rxLoraInbox, packet)
  /\ rxQuiet' = FALSE
  /\ UNCHANGED << rxClock, displayReady, screen, buzzer, buzzerPin,
                  lastAlertTime, alertDisplayed, rxEspNowInbox, rxAccepted,
                  rxHalted, rxBeeps, rxLastType >>

\* loop() at the pace of a beep
RxBuzzLoop ==
  \E dt \in {BuzzStep, 2 * BuzzStep} :
    /\ rxClock + dt <= MaxBuzzClock
    /\ RxLoop(dt)

\* loop() seen every LongStep ms, and up to MaxJitter single milliseconds
\* after that
RxDisplayLoop ==
  \E dt \in {PacketGap, LongStep} :
    /\ rxClock + dt <= MaxDisplayClock
    /\ dt = PacketGap => (rxClock % LongStep) < MaxJitter
    /\ RxLoop(dt)

-----------------------------------------------------------------------------
(* Transmitter: Transmitter.ino *)

\* faulty variant: the counter stops at FLAME_SAMPLES_NEEDED
FireCountUpdate_Capped(count, flame) ==
  IF flame THEN Min(count + 1, FLAME_SAMPLES_NEEDED)
  ELSE IF count > 0 THEN count - 1
  ELSE count

\* if (flameDetected) fireCount++; else if (fireCount > 0) fireCount--;
FireCountUpdate(count, flame) ==
  IF flame THEN count + 1
  ELSE IF count > 0 THEN count - 1
  ELSE count

\* faulty variant: more than FLAME_SAMPLES_NEEDED samples are asked for
FireShouldAlert_Above(count, now, last) ==
  count > FLAME_SAMPLES_NEEDED /\ USub(now, last) > FIRE_MIN_INTERVAL

\* faulty variant: the cooldown ends at exactly FIRE_MIN_INTERVAL
FireShouldAlert_Inclusive(count, now, last) ==
  count >= FLAME_SAMPLES_NEEDED /\ USub(now, last) >= FIRE_MIN_INTERVAL

\* fireCount >= FLAME_SAMPLES_NEEDED && (now - lastFireAlert > FIRE_MIN_INTERVAL)
FireShouldAlert(count, now, last) ==
  count >= FLAME_SAMPLES_NEEDED /\ USub(now, last) > FIRE_MIN_INTERVAL

\* filteredAccel = ALPHA * rawAccel + (1 - ALPHA) * filteredAccel, ALPHA = 0.5,
\* on hundredths of g (the half of an odd sum is cut)
QuakeFilter(raw, filtered) == (raw + filtered) \div 2

\* (filteredAccel > QUAKE_THRESHOLD) ? 1 : 0
QuakeVote(filtered) == IF filtered > QUAKE_THRESHOLD THEN 1 ELSE 0

NextWindowIndex(idx) == (idx + 1) % WINDOW_SIZE

\* for (i = 0; i < WINDOW_SIZE; i++) shakeCount += quakeWindow[i];
RECURSIVE ShakeFrom(_, _)
ShakeFrom(window, i) ==
  IF i >= WINDOW_SIZE THEN 0 ELSE window[i] + ShakeFrom(window, i + 1)

ShakeCount(window) == ShakeFrom(window, 0)

\* faulty variant: more than QUAKE_VOTES_NEEDED votes are asked for
QuakeShouldAlert_Strict(shake, now, last) ==
  shake > QUAKE_VOTES_NEEDED /\ USub(now, last) > QUAKE_MIN_INTERVAL

\* faulty variant: the cooldown ends at exactly QUAKE_MIN_INTERVAL
QuakeShouldAlert_Inclusive(shake, now, last) ==
  shake >= QUAKE_VOTES_NEEDED /\ USub(now, last) >= QUAKE_MIN_INTERVAL

\* shakeCount >= 4 && (now - lastQuakeAlert > 5000)
QuakeShouldAlert(shake, now, last) ==
  shake >= QUAKE_VOTES_NEEDED /\ USub(now, last) > QUAKE_MIN_INTERVAL

\* faulty variant: the alert branch clears the votes, as the fire branch
\* clears fireCount
WindowAfterAlert_Cleared(window) == [i \in 0..(WINDOW_SIZE - 1) |-> 0]

\* the quake branch of loop() is sendLoRaAlert(...); lastQuakeAlert = now;
\* the window it has just summed is left as it is
WindowAfterAlert(window) == window

\* faulty variant: one cooldown for both alerts, a FIRE alert restarts it
QuakeCooldownFrom_Shared(lastQuake, fire, now) ==
  IF fire THEN now ELSE lastQuake

\* the time the quake cooldown is counted from, after the fire branch of the
\* same iteration: that branch writes lastFireAlert and fireCount only
QuakeCooldownFrom(lastQuake, fire, now) == lastQuake

\* the payload sendLoRaAlert(type, extra) formats, extra in hundredths
TxPayload(variant, type, extra, fix) ==
  IF variant = "demo"
  THEN DemoPayload(type, SAMPLE_LAT, SAMPLE_LNG, extra)
  ELSE GpsPayload(type,
                  IF fix.valid THEN fix.lat ELSE SAMPLE_LAT,
                  IF fix.valid THEN fix.lng ELSE SAMPLE_LNG,
                  extra, fix.sats)

NoFix == [valid |-> FALSE, lat |-> 0, lng |-> 0, sats |-> 0]
FarFix == [valid |-> TRUE, lat |-> FAR_LAT, lng |-> FAR_LNG, sats |-> 7]

\* the calibration burst of the demo sketch's setup(): n more samples of raw
RECURSIVE Calibrate(_, _, _)
Calibrate(filtered, raw, n) ==
  IF n = 0 THEN filtered ELSE Calibrate((raw + filtered) \div 2, raw, n - 1)

QUIET == 0
SHAKE == 24                \* 0.24 g

TxInit(accel) ==
  /\ txVariant \in {"gps", "demo"}
  /\ txClock = 0
  /\ loraReady \in BOOLEAN
  /\ accelReady = (accel /\ loraReady)
  /\ fireCount = 0
  /\ lastFireAlert = 0
  /\ lastQuakeAlert = 0
  /\ filteredAccel \in
       IF txVariant = "demo" /\ accelReady
       THEN {Calibrate(0, QUIET, CALIBRATION_SAMPLES),
             Calibrate(0, SHAKE, CALIBRATION_SAMPLES)}
       ELSE {0}
  /\ quakeWindow = [i \in 0..(WINDOW_SIZE - 1) |-> 0]
  /\ windowIndex = 0
  /\ ledTurnOffTime = 0
  \* setup() drives the LED HIGH first and LOW as its last step
  /\ ledPin = ~loraReady
  /\ lastStatusPrint = 0
  /\ loopCount = 0
  /\ gpsFix = NoFix
  /\ txFlame = FALSE
  /\ txFlames = << >>
  /\ txCountChecked = 0
  /\ txVotes = << >>
  /\ txSent = << >>
  /\ txSentLog = [k \in {"FIRE", "QUAKE"} |-> [n |-> 0, at |-> -1]]

LastFlames(flames) ==
  IF Len(flames) <= FLAME_SAMPLES_NEEDED THEN flames
  ELSE SubSeq(flames, Len(flames) - FLAME_SAMPLES_NEEDED + 1, Len(flames))

LastVotes(votes) ==
  IF Len(votes) <= WINDOW_SIZE THEN votes
  ELSE SubSeq(votes, Len(votes) - WINDOW_SIZE + 1, Len(votes))

\* One iteration of loop(), dt ms after the previous one: flame is the flame
\* sensor's reading, raw the magnitude of the gravity-free acceleration in
\* hundredths of g, nmea the fix the GPS feed brings (the live-GPS sketch).
TxLoop(flame, raw, nmea, dt) ==
  LET now     == UAdd(txClock, dt)
      fix     == IF txVariant = "gps" /\ nmea.valid THEN nmea ELSE gpsFix
      ledOff  == now >= ledTurnOffTime /\ ledPin
      count1  == FireCountUpdate(fireCount, flame)
      fire    == FireShouldAlert(count1, now, lastFireAlert)
      sentF   == fire /\ loraReady
      filt1   == IF accelReady THEN QuakeFilter(raw, filteredAccel)
                 ELSE filteredAccel
      vote    == QuakeVote(filt1)
      window1 == IF accelReady THEN [quakeWindow EXCEPT ![windowIndex] = vote]
                 ELSE quakeWindow
      quake   == accelReady
                 /\ QuakeShouldAlert(ShakeCount(window1), now,
                                     QuakeCooldownFrom(lastQuakeAlert, fire, now))
      sentQ   == quake /\ loraReady
  IN
  /\ LoopRuns(~loraReady)
  /\ txClock' = now
  /\ gpsFix' = fix
  /\ UNCHANGED << txVariant, loraReady, accelReady >>
  /\ txFlame' = flame
  /\ txFlames' = LastFlames(Append(txFlames, flame))
  /\ txCountChecked' = count1
  /\ fireCount' = IF fire THEN 0 ELSE count1
  /\ lastFireAlert' = IF fire THEN now ELSE lastFireAlert
  /\ filteredAccel' = filt1
  /\ quakeWindow' = IF quake THEN WindowAfterAlert(window1) ELSE window1
  /\ windowIndex' = IF accelReady THEN NextWindowIndex(windowIndex)
                    ELSE windowIndex
  /\ txVotes' = IF accelReady THEN LastVotes(Append(txVotes, vote)) ELSE txVotes
  /\ lastQuakeAlert' = IF quake THEN now
                       ELSE QuakeCooldownFrom(lastQuakeAlert, fire, now)
  /\ txSent' =
       (IF sentF THEN << TxPayload(txVariant, S_FIRE, 100, fix) >> ELSE << >>)
       \o (IF sentQ THEN << TxPayload(txVariant, S_QUAKE, filt1, fix) >>
           ELSE << >>)
  /\ txSentLog' =
       [k \in {"FIRE", "QUAKE"} |->
          IF (k = "FIRE" /\ sentF) \/ (k = "QUAKE" /\ sentQ)
          THEN [n |-> Min(txSentLog[k].n + 1, 2), at |-> now]
          ELSE txSentLog[k]]
  \* blinkLED() inside sendLoRaAlert
  /\ ledPin' = IF sentF \/ sentQ THEN TRUE ELSE IF ledOff THEN FALSE ELSE ledPin
  /\ ledTurnOffTime' = IF sentF \/ sentQ THEN UAdd(now, TX_LED_BLINK_MS)
                       ELSE ledTurnOffTime
  /\ IF USub(now, lastStatusPrint) >= STATUS_PERIOD
     THEN lastStatusPrint' = now /\ loopCount' = 0
     ELSE lastStatusPrint' = lastStatusPrint /\ loopCount' = loopCount + 1

\* the transmitter's loop takes TxStep ms, or twice that
TxStep == 1250

\* fire traffic: no accelerometer answered in setup()
TxFire ==
  \E flame \in BOOLEAN, nmea \in {NoFix, FarFix}, dt \in {TxStep, 2 * TxStep} :
    /\ txClock + dt <= MaxFireClock
    /\ TxLoop(flame, QUIET, nmea, dt)

\* quake traffic: the flame sensor stays dark
TxQuake ==
  \E raw \in {QUIET, SHAKE}, dt \in {TxStep, 2 * TxStep} :
    /\ txClock + dt <= MaxQuakeClock
    /\ TxLoop(FALSE, raw, NoFix, dt)

\* both sensors live, the loop at its slower pace
TxBoth ==
  \E flame \in BOOLEAN, raw \in {QUIET, SHAKE} :
    /\ txClock + 2 * TxStep <= MaxTxClock
    /\ TxLoop(flame, raw, NoFix, 2 * TxStep)

\* the iterations after boot: both sensors live, the loop at either pace
TxBoot ==
  \E flame \in BOOLEAN, raw \in {QUIET, SHAKE}, dt \in {TxStep, 2 * TxStep} :
    /\ txClock + dt <= MaxBootClock
    /\ TxLoop(flame, raw, NoFix, dt)

\* the first iterations of a transmitter whose flame sensor is lit
TxStart ==
  /\ txClock + 2 * TxStep <= MaxStartClock
  /\ TxLoop(TRUE, QUIET, NoFix, 2 * TxStep)

-----------------------------------------------------------------------------
(* A node whose LoRa.begin failed: setup() never returns *)

\* while (1) { digitalWrite(LED_PIN, !digitalRead(LED_PIN)); delay(200); }
TxHaltBlink ==
  /\ ~loraReady
  /\ ledPin' = ~ledPin
  /\ UNCHANGED << txVariant, txClock, loraReady, accelReady, fireCount,
                  lastFireAlert, lastQuakeAlert, filteredAccel, quakeWindow,
                  windowIndex, ledTurnOffTime, lastStatusPrint, loopCount,
                  gpsFix, txFlame, txFlames, txCountChecked, txVotes, txSent,
                  txSentLog >>

\* while (1) { toggle RX_LED_PIN; toggle TX_LED_PIN; delay(200); }
RelayHaltBlink ==
  /\ relayHalted
  /\ rxLedPin' = ~rxLedPin
  /\ txLedPin' = ~txLedPin
  /\ UNCHANGED << relayClock, messageCache, cacheIndex, messagesReceived,
                  messagesForwardedLoRa, messagesForwardedEspNow,
                  messagesDuplicate, lastStatsDisplay, rxLedOffTime,
                  txLedOffTime, relayMsg, relayOutcome, relayTx, recordCount,
                  lastRec, seen, nextFresh, relayHalted, espNowReady,
                  relayVariant, relayPc, relayJitter, relayAir >>

\* while (true) delay(1000);
RxHaltWait ==
  /\ rxHalted
  /\ UNCHANGED rxVars

-----------------------------------------------------------------------------
(* Specifications *)

NoProbe == [fn |-> "none"]

\* the three nodes when setup() has returned or has stopped in its while (1)
Setup(accel) == RelayInit /\ RxInit /\ TxInit(accel)

\* every radio came up
RadiosUp == ~relayHalted /\ espNowReady /\ ~rxHalted /\ loraReady

\* the relay runs the hybrid sketch
Hybrid == relayVariant = "hybrid"

\* the three nodes running, nothing applied on its own
Nodes(accel) == Setup(accel) /\ RadiosUp /\ Hybrid /\ probe = NoProbe

Init == Nodes(FALSE) /\ displayReady /\ txVariant = "gps"

Spec == Init /\ [][RelayMixed /\ UNCHANGED << rxVars, txVars, probe >>]_vars

SpecBurst == Init /\ [][RelayBurst /\ UNCHANGED << rxVars, txVars, probe >>]_vars

SpecLong == Init /\ [][RelayLong /\ UNCHANGED << rxVars, txVars, probe >>]_vars

InitLink == Nodes(FALSE) /\ txVariant = "gps"

SpecLink == InitLink /\ [][LinkNext /\ UNCHANGED << txVars, probe >>]_vars

InitFire == Nodes(FALSE) /\ displayReady

SpecFire == InitFire /\ [][TxFire /\ UNCHANGED << relayVars, rxVars, probe >>]_vars

InitQuake == Nodes(TRUE) /\ displayReady

SpecQuake == InitQuake /\ [][TxQuake /\ UNCHANGED << relayVars, rxVars, probe >>]_vars

\* the nodes idle while a function is applied to the argument Init drew
Apply(fn, out) ==
  /\ probe.fn = fn
  /\ ~probe.done
  /\ probe' = [probe EXCEPT !.out = out, !.done = TRUE]
  /\ UNCHANGED << relayVars, rxVars, txVars >>

Pending(fn, args) ==
  /\ Setup(FALSE) /\ RadiosUp /\ Hybrid /\ displayReady /\ txVariant = "gps"
  /\ probe \in {[fn |-> fn, arg |-> a, out |-> "pending", done |-> FALSE] : a \in args}

\* forwardMessage's choice of transport on a computed distance
InitSelect == Pending("selectTransport", ProbeDistLow..ProbeDistHigh)

SelectStep == Apply("selectTransport", selectTransport(probe.arg))

SpecSelect == InitSelect /\ [][SelectStep]_vars

\* texts handed to parseMessage: what stands before the first comma, with the
\* kind the receiver's strncmp makes of it, and the fields that follow, each
\* with the number atof reads from it (in millionths)
ProbeHeads ==
  { [txt |-> S_FIRE, kind |-> T_FIRE],
    [txt |-> FireNoFields, kind |-> T_FIRE],
    [txt |-> S_QUAKE, kind |-> T_QUAKE],
    [txt |-> S_EARTHQUAKE, kind |-> T_NONE],
    [txt |-> Noise, kind |-> T_NONE],
    [txt |-> << "F", "I", "R" >>, kind |-> T_NONE],
    [txt |-> << >>, kind |-> T_NONE] }

ProbeFields ==
  { [txt |-> FmtFixed(SAMPLE_LAT, 6), val |-> SAMPLE_LAT],
    [txt |-> FmtFixed(0 - 1286389, 6), val |-> 0 - 1286389],
    [txt |-> FmtFixed(15, 2), val |-> 150000],
    [txt |-> Tail(S_SATS) \o Digits(7), val |-> 0],
    [txt |-> << >>, val |-> 0] }

ProbeTexts ==
  { [head |-> h, fields |-> fs] :
      h \in ProbeHeads,
      fs \in UNION { [1..n -> ProbeFields] : n \in 0..MaxFields } }

RECURSIVE JoinFields(_)
JoinFields(fs) ==
  IF fs = << >> THEN << >> ELSE COMMA \o Head(fs).txt \o JoinFields(Tail(fs))

\* the packet text: head,field,field,...
WireText(t) == t.head.txt \o JoinFields(t.fields)

InitParse == Pending("parseMessage", ProbeTexts)

ParseStep == Apply("parseMessage", parseMessage(WireText(probe.arg)))

SpecParse == InitParse /\ [][ParseStep]_vars

\* printf's rounding of a value that is given ten times finer than it is
\* printed: to the nearest, a half away from zero
Printed(v) == IF v < 0 THEN 0 - ((5 - v) \div 10) ELSE (v + 5) \div 10

\* arguments of sendLoRaAlert: coordinates in ten-millionths of a degree, the
\* extra in thousandths, so that "%.6f" and "%.2f" have something to round
ProbeLats == {307688847, 10000460, 0 - 12863894, 900000000, 5}
ProbeLngs == {765752106, 0 - 1800000000, 360000004, 0 - 600049}
ProbeExtras == {1000, 154, 155, 50, 12345}
ProbeSats == {0, 7, 12}

ProbeAlerts ==
  { [fmt |-> f, kind |-> k, lat |-> la, lng |-> ln, extra |-> e, sats |-> n] :
      f \in {"demo", "gps"}, k \in {T_FIRE, T_QUAKE}, la \in ProbeLats,
      ln \in ProbeLngs, e \in ProbeExtras, n \in ProbeSats }

\* sendLoRaAlert("FIRE", ...) / sendLoRaAlert("QUAKE", ...)
KindText(kind) == IF kind = T_FIRE THEN S_FIRE ELSE S_QUAKE

\* the payload sendLoRaAlert puts on the air, without Sats (demo sketch) or
\* with it (GPS sketch)
Encoded(a) ==
  IF a.fmt = "gps"
  THEN GpsPayload(KindText(a.kind), Printed(a.lat), Printed(a.lng),
                  Printed(a.extra), a.sats)
  ELSE DemoPayload(KindText(a.kind), Printed(a.lat), Printed(a.lng),
                   Printed(a.extra))

InitRoundTrip == Pending("sendLoRaAlert", ProbeAlerts)

RoundTripStep == Apply("sendLoRaAlert", parseMessage(Encoded(probe.arg)))

SpecRoundTrip == InitRoundTrip /\ [][RoundTripStep]_vars

\* the receiver with alerts and noise arriving while the buzzer sounds
BuzzNext ==
  \/ RxArrive(MaxAlerts) /\ UNCHANGED << relayVars, txVars, probe >>
  \/ RxBuzzLoop /\ UNCHANGED << relayVars, txVars, probe >>

SpecBuzz == Init /\ [][BuzzNext]_vars

\* the receiver over the time an alert stays on the display, with an OLED
\* that answered or not
InitRx == Nodes(FALSE) /\ txVariant = "gps"

DisplayNext ==
  \/ RxArrive(MaxAlerts) /\ UNCHANGED << relayVars, txVars, probe >>
  \/ RxDisplayLoop /\ UNCHANGED << relayVars, txVars, probe >>

SpecDisplay == InitRx /\ [][DisplayNext]_vars

\* the plain relay sketch in place of the hybrid one
InitPlain ==
  /\ Setup(FALSE) /\ RadiosUp /\ relayVariant = "plain"
  /\ displayReady /\ txVariant = "gps" /\ probe = NoProbe

PlainNext ==
  \/ PlainArrives /\ UNCHANGED << rxVars, txVars, probe >>
  \/ PlainLoops /\ UNCHANGED << rxVars, txVars, probe >>
  \/ PlainSends /\ UNCHANGED << rxVars, txVars, probe >>

SpecPlain == InitPlain /\ [][PlainNext]_vars

\* setup() of every node with each radio coming up or not
InitStartup == Setup(FALSE) /\ Hybrid /\ probe = NoProbe

StartupNext ==
  \/ LinkRelay /\ UNCHANGED << txVars, probe >>
  \/ LinkReceiver /\ UNCHANGED << txVars, probe >>
  \/ TxStart /\ UNCHANGED << relayVars, rxVars, probe >>
  \/ TxHaltBlink /\ UNCHANGED << relayVars, rxVars, probe >>
  \/ RelayHaltBlink /\ UNCHANGED << rxVars, txVars, probe >>
  \/ RxHaltWait /\ UNCHANGED << relayVars, txVars, probe >>

SpecStartup == InitStartup /\ [][StartupNext]_vars

SpecBoot == InitQuake /\ [][TxBoot /\ UNCHANGED << relayVars, rxVars, probe >>]_vars

SpecTx == InitQuake /\ [][TxBoth /\ UNCHANGED << relayVars, rxVars, probe >>]_vars

-----------------------------------------------------------------------------
(* Claims about the relay *)

BeginsWith(msg, lit) == StrNEq(msg, lit, Len(lit))

\* the latest iteration took a packet
Handled == relayMsg # NoPacket

\* this step is an iteration that took a packet
Reception == messagesReceived' = messagesReceived + 1

SlotMatches(i, text, now) ==
  /\ messageCache[i].msg = text
  /\ now - messageCache[i].timestamp < DEDUPE_WINDOW

\* C1 (as claimed): a packet that carries a FIRE or a QUAKE payload of the
\* transmitter is never classified invalid by the relay: it is forwarded, or
\* dropped only as a duplicate.
C1_TransmitterKindsAccepted ==
  (Handled /\ (BeginsWith(relayMsg, S_FIRE) \/ BeginsWith(relayMsg, S_QUAKE)))
    => relayOutcome \in {"forward", "duplicate"}

\* C2 (as claimed): a packet whose text begins neither with FIRE nor with
\* QUAKE is dropped as invalid: the cache and its index stay as they were and
\* nothing is transmitted.
C2_OtherPrefixesDropped ==
  [][(Reception /\ ~BeginsWith(relayMsg', S_FIRE) /\ ~BeginsWith(relayMsg', S_QUAKE))
       => /\ relayOutcome' = "invalid"
          /\ messageCache' = messageCache
          /\ cacheIndex' = cacheIndex
          /\ relayTx' = NoTx]_vars

\* C4 (as claimed): two forward attempts of one text are never less than
\* DEDUPE_WINDOW ms apart.
C4_NeverTwiceWithinWindow ==
  \A m \in DOMAIN lastRec :
    lastRec[m].prevAt >= 0 => lastRec[m].at - lastRec[m].prevAt >= DEDUPE_WINDOW

\* C4 (amended): two forward attempts of one text are at least DEDUPE_WINDOW
\* ms apart unless CACHE_SIZE or more other messages were recorded between
\* them.
C4_TwiceOnlyAfterWindowOrEviction ==
  \A m \in DOMAIN lastRec :
    lastRec[m].prevAt >= 0 =>
      \/ lastRec[m].at - lastRec[m].prevAt >= DEDUPE_WINDOW
      \/ lastRec[m].rec - lastRec[m].prevRec - 1 >= CACHE_SIZE

\* a text forwarded a second time inside the window, after eviction
C4_Witness ==
  /\ NearFire \in DOMAIN lastRec
  /\ lastRec[NearFire].prevAt >= 0
  /\ lastRec[NearFire].at - lastRec[NearFire].prevAt < DEDUPE_WINDOW
  /\ relayTx.msg = NearFire

\* C5: a valid packet is treated as a duplicate exactly when some slot holds
\* its text with an age below DEDUPE_WINDOW; an age of exactly DEDUPE_WINDOW
\* does not count.
C5_IsDuplicateIff ==
  [][(Reception /\ isValidMessage(relayMsg'))
       => ((relayOutcome' = "duplicate")
             <=> \E i \in 0..(CACHE_SIZE - 1) :
                   SlotMatches(i, relayMsg', relayClock'))]_vars

\* a text recorded again when its slot was exactly DEDUPE_WINDOW ms old
C5_Witness ==
  /\ relayOutcome = "forward"
  /\ relayMsg \in DOMAIN lastRec
  /\ lastRec[relayMsg].at = relayClock
  /\ lastRec[relayMsg].prevAt >= 0
  /\ lastRec[relayMsg].at - lastRec[relayMsg].prevAt = DEDUPE_WINDOW
  /\ lastRec[relayMsg].rec - lastRec[relayMsg].prevRec - 1 < CACHE_SIZE

DroppedAsDuplicate ==
  /\ relayOutcome' = "duplicate"
  /\ messagesDuplicate' = messagesDuplicate + 1
  /\ messagesForwardedLoRa' = messagesForwardedLoRa
  /\ messagesForwardedEspNow' = messagesForwardedEspNow
  /\ relayTx' = NoTx

\* C6 (as claimed): a valid text received less than DEDUPE_WINDOW ms after
\* its previous reception, with fewer than CACHE_SIZE messages recorded in
\* between, is dropped as a duplicate.
C6_SecondWithinWindowDropped ==
  [][(/\ Reception
      /\ isValidMessage(relayMsg')
      /\ relayMsg' \in DOMAIN seen
      /\ relayClock' - seen[relayMsg'].at < DEDUPE_WINDOW
      /\ recordCount - seen[relayMsg'].rec < CACHE_SIZE)
       => DroppedAsDuplicate]_vars

\* C6 (amended): a valid text received less than DEDUPE_WINDOW ms after it
\* was last recorded (its previous instance having been forwarded, not
\* dropped), with fewer than CACHE_SIZE messages recorded since, is dropped
\* as a duplicate: the duplicate counter goes up by one, the forwarded
\* counters stay and nothing is transmitted.
C6_SecondAfterRecordDropped ==
  [][(/\ Reception
      /\ isValidMessage(relayMsg')
      /\ relayMsg' \in DOMAIN lastRec
      /\ relayClock' - lastRec[relayMsg'].at < DEDUPE_WINDOW
      /\ recordCount - lastRec[relayMsg'].rec < CACHE_SIZE)
       => DroppedAsDuplicate]_vars

\* the second instance of a text dropped right after the first was forwarded
C6_Witness ==
  /\ relayOutcome = "duplicate"
  /\ messagesReceived = 2
  /\ messagesDuplicate = 1
  /\ relayMsg \in DOMAIN lastRec
  /\ relayClock - lastRec[relayMsg].at < DEDUPE_WINDOW

\* C7: once DEDUPE_WINDOW ms have passed since a text was recorded, or
\* CACHE_SIZE other messages have been recorded after it, isDuplicate of that
\* text is false.
C7_ExpiredOrEvictedNotDuplicate ==
  \A m \in DOMAIN lastRec :
    (\/ relayClock - lastRec[m].at >= DEDUPE_WINDOW
     \/ recordCount - lastRec[m].rec >= CACHE_SIZE)
      => ~isDuplicate(messageCache, m, relayClock)

\* a text evicted by CACHE_SIZE later records while its window is still open
C7_Witness ==
  /\ NearFire \in DOMAIN lastRec
  /\ recordCount - lastRec[NearFire].rec >= CACHE_SIZE
  /\ relayClock - lastRec[NearFire].at < DEDUPE_WINDOW
  /\ ~isDuplicate(messageCache, NearFire, relayClock)


-----------------------------------------------------------------------------
(* Claims about the relay and the receiver together *)

\* C3 (as claimed): every alert the relay forwarded with success, over either
\* transport, is taken by the receiver, shown and sounded: once the receiver
\* has run an iteration that found nothing more to take, the alerts it has
\* accepted are as many as the relay has forwarded.
C3_ForwardedAlertsReachReceiver ==
  rxQuiet => rxAccepted = messagesForwardedLoRa + messagesForwardedEspNow


-----------------------------------------------------------------------------
(* Claims about the transmitter *)

\* this step is an iteration of the transmitter's loop
TxTick == txClock' # txClock

FireSent(sent) == \E i \in 1..Len(sent) : BeginsWith(sent[i], S_FIRE)
QuakeSent(sent) == \E i \in 1..Len(sent) : BeginsWith(sent[i], S_QUAKE)

RECURSIVE SumSeq(_)
SumSeq(q) == IF q = << >> THEN 0 ELSE Head(q) + SumSeq(Tail(q))

\* C8 (as claimed): with the accelerometer ready, an iteration sends a QUAKE
\* alert exactly when at least 4 of the 10 most recent votes are true and
\* more than 5000 ms have passed since the previous QUAKE alert; before the
\* first alert there is no previous one to wait for.  (An alert is stamped
\* with a time above 0, so lastQuakeAlert = 0 says none has been sent.)
C8_QuakeIffSincePrevious ==
  [][(TxTick /\ accelReady)
       => (QuakeSent(txSent')
             <=> /\ SumSeq(txVotes') >= 4
                 /\ \/ lastQuakeAlert = 0
                    \/ txClock' - lastQuakeAlert > 5000)]_vars

\* C8 (amended): with the accelerometer ready, an iteration sends a QUAKE
\* alert exactly when at least 4 of the 10 most recent votes are true and
\* more than 5000 ms have passed since lastQuakeAlert, which is the time of
\* the previous QUAKE alert and 0 (the start of the clock) before the first.
C8_QuakeIff ==
  [][(TxTick /\ accelReady)
       => (QuakeSent(txSent')
             <=> /\ SumSeq(txVotes') >= 4
                 /\ txClock' - lastQuakeAlert > 5000)]_vars

\* a QUAKE alert sent on a window that sums to exactly 4
C8_Witness ==
  /\ QuakeSent(txSent)
  /\ Len(txVotes) = WINDOW_SIZE
  /\ SumSeq(txVotes) = 4
  /\ lastQuakeAlert = txClock

\* the flame counter as the alert check of this iteration sees it
UpdatedCount ==
  IF txFlame' THEN fireCount + 1
  ELSE IF fireCount > 0 THEN fireCount - 1 ELSE 0

\* C9 (as claimed): an iteration sends a FIRE alert exactly when the updated
\* flame counter is at least 3 and more than 5000 ms have passed since the
\* previous FIRE alert; before the first alert there is no previous one to
\* wait for.  (An alert is stamped with a time above 0, so lastFireAlert = 0
\* says none has been sent.)
C9_FireIffSincePrevious ==
  [][TxTick
       => (FireSent(txSent')
             <=> /\ UpdatedCount >= 3
                 /\ \/ lastFireAlert = 0
                    \/ txClock' - lastFireAlert > 5000)]_vars

\* C9 (amended): an iteration sends a FIRE alert (magnitude 1.00) exactly
\* when the updated flame counter is at least 3 and more than 5000 ms have
\* passed since lastFireAlert, which is the time of the previous FIRE alert
\* and 0 (the start of the clock) before the first; it then resets the
\* counter to 0 and sets lastFireAlert to the iteration's time, and otherwise
\* leaves both as they are.
C9_FireIff ==
  [][TxTick
       => LET due == UpdatedCount >= 3 /\ txClock' - lastFireAlert > 5000
          IN  /\ FireSent(txSent') <=> due
              /\ due => /\ fireCount' = 0
                        /\ lastFireAlert' = txClock'
                        /\ parseMessage(txSent'[1]).extra = 1000000
              /\ ~due => /\ fireCount' = UpdatedCount
                         /\ lastFireAlert' = lastFireAlert]_vars

\* a FIRE alert just sent
C9_Witness ==
  /\ FireSent(txSent)
  /\ txFlame
  /\ fireCount = 0
  /\ lastFireAlert = txClock
  /\ txCountChecked > FLAME_SAMPLES_NEEDED

\* C10: the value the alert check sees is the previous counter plus one on a
\* flame reading, and the previous counter minus one but at least 0 without
\* one; the counter is never negative.
C10_LeakyCounter ==
  [][TxTick
       => /\ txCountChecked' = IF txFlame' THEN fireCount + 1
                               ELSE IF fireCount - 1 > 0 THEN fireCount - 1
                               ELSE 0
          /\ fireCount >= 0
          /\ fireCount' >= 0]_vars

\* the counter beyond FLAME_SAMPLES_NEEDED, held there by the cooldown
C10_Witness ==
  /\ txFlame
  /\ fireCount > FLAME_SAMPLES_NEEDED
  /\ txCountChecked = fireCount


\* C11 (as claimed): an iteration that sends a FIRE alert read the flame
\* sensor as 'detected', and so did the two iterations before it.
C11_FireAfterThreeConsecutive ==
  [][(TxTick /\ FireSent(txSent'))
       => /\ Len(txFlames') = FLAME_SAMPLES_NEEDED
          /\ \A i \in 1..FLAME_SAMPLES_NEEDED : txFlames'[i]]_vars


AlertSent(kind, sent) ==
  IF kind = "FIRE" THEN FireSent(sent) ELSE QuakeSent(sent)

\* C12: an alert of a kind is sent more than 5000 ms after the previous alert
\* of that kind, for FIRE and for QUAKE.
C12_SuccessiveAlertsApart ==
  [][\A kind \in {"FIRE", "QUAKE"} :
       (TxTick /\ AlertSent(kind, txSent') /\ txSentLog[kind].n > 0)
         => txClock' - txSentLog[kind].at > 5000]_vars

\* a second FIRE and a second QUAKE alert have gone out
C12_Witness ==
  /\ txSentLog["FIRE"].n = 2
  /\ txSentLog["QUAKE"].n = 2
  /\ QuakeSent(txSent)


-----------------------------------------------------------------------------
(* Claims about the relay's errors *)

ForwardedUnchanged ==
  /\ messagesForwardedLoRa' = messagesForwardedLoRa
  /\ messagesForwardedEspNow' = messagesForwardedEspNow

\* C14: when the send of a forward fails, that one attempt on the selected
\* transport is all there is: the forwarded counters stay as they were, and
\* an iteration that takes no packet transmits nothing and counts nothing.
C14_NoRetryAfterFailure ==
  [][/\ (Reception /\ relayOutcome' = "forward" /\ ~relayTx'.ok)
          => /\ ForwardedUnchanged
             /\ relayTx'.msg = relayMsg'
             /\ relayTx'.via \in {"espnow", "lora"}
     /\ (relayClock' # relayClock /\ ~Reception)
          => /\ relayTx' = NoTx
             /\ relayOutcome' = "idle"
             /\ ForwardedUnchanged]_vars

\* the iteration after a failed forward: idle, nothing forwarded so far
C14_Witness ==
  /\ relayOutcome = "idle"
  /\ relayTx = NoTx
  /\ recordCount = 1
  /\ messagesReceived = 1
  /\ messagesForwardedLoRa + messagesForwardedEspNow = 0

\* C15 (as claimed): when a packet is dropped as invalid, a counter of
\* invalid messages goes up by one.  The relay's statistics are
\* messagesReceived, which counts every packet taken, the two forwarded
\* counters and messagesDuplicate; one of the last three would have to move.
C15_InvalidDropCounted ==
  [][(Reception /\ relayOutcome' = "invalid")
       => \/ messagesDuplicate' = messagesDuplicate + 1
          \/ messagesForwardedLoRa' = messagesForwardedLoRa + 1
          \/ messagesForwardedEspNow' = messagesForwardedEspNow + 1]_vars

-----------------------------------------------------------------------------
(* Claims about a failed start *)

txWork == << txVariant, txClock, loraReady, accelReady, fireCount,
             lastFireAlert, lastQuakeAlert, filteredAccel, quakeWindow,
             windowIndex, ledTurnOffTime, lastStatusPrint, loopCount, gpsFix,
             txFlame, txFlames, txCountChecked, txVotes, txSent, txSentLog >>

relayWork == << relayClock, messageCache, cacheIndex, messagesReceived,
                messagesForwardedLoRa, messagesForwardedEspNow,
                messagesDuplicate, lastStatsDisplay, rxLedOffTime,
                txLedOffTime, relayMsg, relayOutcome, relayTx, recordCount,
                lastRec, seen, nextFresh, relayHalted, espNowReady,
                relayVariant, relayPc, relayJitter, relayAir,
                rxLoraInbox, rxEspNowInbox >>

\* what the receiver itself writes; the inboxes are filled by the relay
rxWork == << rxClock, displayReady, screen, buzzer, buzzerPin, lastAlertTime,
             alertDisplayed, rxAccepted, rxHalted, rxBeeps, rxLastType >>

\* a node whose LoRa.begin failed does nothing but blink
HaltedIdle ==
  /\ ~loraReady => UNCHANGED txWork
  /\ relayHalted => UNCHANGED relayWork
  /\ rxHalted => UNCHANGED rxWork

\* C16 as claimed: a node on which the initialisation of a radio failed, the
\* relay's ESP-NOW radio included, stays where it is and does no further
\* work: it samples nothing, receives nothing and transmits nothing.
C16_AnyRadioFailureHalts ==
  [][HaltedIdle /\ (~espNowReady => UNCHANGED relayWork)]_vars

\* C16, amended: a node whose LoRa.begin failed stays in setup() for ever and
\* does no further work: the transmitter takes no sample and sends nothing,
\* the relay takes no packet and forwards nothing, the receiver takes no
\* packet; only the diagnostic LEDs change.
C16_LoRaFailureHalts == [][HaltedIdle]_vars

\* all three nodes stopped in setup(), the LEDs of the transmitter and of the
\* relay having blinked
C16_Witness ==
  /\ ~loraReady /\ ~ledPin
  /\ relayHalted /\ rxLedPin /\ txLedPin
  /\ rxHalted

-----------------------------------------------------------------------------
(* Claims about functions applied on their own *)

Applied(fn) == probe.fn = fn /\ probe.done

\* C13: the relay selects ESP-NOW exactly when the computed distance is below
\* 50 m (5000 cm) and LoRa otherwise; 50 m itself selects LoRa.
C13_ShortRangeIffBelowThreshold ==
  Applied("selectTransport")
    => /\ probe.out \in {"espnow", "lora"}
       /\ probe.out = "espnow" <=> probe.arg < 5000
       /\ probe.arg = 5000 => probe.out = "lora"

\* LoRa selected at exactly 50 m
C13_Witness ==
  /\ Applied("selectTransport")
  /\ probe.arg = 5000
  /\ probe.out = "lora"

\* the number in the i-th field of the text, 0 where the text has no such field
FieldValue(t, i) == IF i <= Len(t.fields) THEN t.fields[i].val ELSE 0

\* C17: parseMessage always returns a result.  A text that begins with FIRE
\* or QUAKE gives that kind, with latitude, longitude and extra read from the
\* first, second and third field after the kind and 0 for every field the
\* text does not have; any other text gives NONE with the three fields 0.
C17_ParseNeverFails ==
  Applied("parseMessage")
    => LET t == probe.arg
       IN  IF t.head.kind = T_NONE
           THEN probe.out = [type |-> T_NONE, lat |-> 0, lng |-> 0, extra |-> 0]
           ELSE probe.out = [type  |-> t.head.kind,
                             lat   |-> FieldValue(t, 1),
                             lng   |-> FieldValue(t, 2),
                             extra |-> FieldValue(t, 3)]

\* a FIRE text that stops after its second field: latitude and longitude are
\* filled, extra is left at 0
C17_Witness ==
  /\ Applied("parseMessage")
  /\ probe.arg.head.kind = T_FIRE
  /\ Len(probe.arg.fields) = 2
  /\ probe.out.lat = SAMPLE_LAT
  /\ probe.out.lng = 0 - 1286389
  /\ probe.out.extra = 0

Abs(x) == IF x < 0 THEN 0 - x ELSE x

\* C18: what parseMessage makes of a payload of sendLoRaAlert has the kind
\* that was sent, and a latitude, a longitude and an extra that are the sent
\* ones to within the rounding of the wire format: half of 0.000001 for a
\* coordinate, half of 0.01 for the extra; with the Sats field and without.
C18_RoundTrip ==
  Applied("sendLoRaAlert")
    => LET a == probe.arg
           r == probe.out
       IN  /\ r.type = a.kind
           /\ Abs(10 * r.lat - a.lat) <= 5
           /\ Abs(10 * r.lng - a.lng) <= 5
           /\ Abs(r.extra - 1000 * a.extra) <= 5000

\* a QUAKE payload with Sats, a fraction with leading zeros and an extra that
\* the wire rounds from 0.154 to 0.15
C18_Witness ==
  /\ Applied("sendLoRaAlert")
  /\ probe.arg.fmt = "gps" /\ probe.arg.sats = 12
  /\ probe.arg.kind = T_QUAKE /\ probe.out.type = T_QUAKE
  /\ probe.arg.lat = 10000460 /\ probe.out.lat = 1000046
  /\ probe.arg.lng < 0 /\ probe.out.lng < 0
  /\ probe.arg.extra = 154 /\ probe.out.extra = 150000

-----------------------------------------------------------------------------
(* Claims about the receiver *)

BeepsOf(type) == IF type = T_FIRE THEN 5 ELSE 3

\* C19: after an accepted alert the buzzer pin goes HIGH 5 times for FIRE and
\* 3 times for QUAKE, the first time in startBuzzer: never more, and when the
\* buzzer has become inactive exactly that many times, with the pin LOW.
\* While it is active the beeps sounded and the beeps remaining make up the
\* number, and the pin is what isHigh says.
C19_BeepsPerAlert ==
  rxAccepted > 0
    => /\ rxBeeps <= BeepsOf(rxLastType)
       /\ buzzerPin = buzzer.isHigh
       /\ ~buzzer.active => rxBeeps = BeepsOf(rxLastType) /\ ~buzzerPin
       /\ buzzer.active
            => buzzer.beepsRemaining
                 = BeepsOf(rxLastType) - rxBeeps + (IF buzzerPin THEN 1 ELSE 0)

\* the buzzer silent again after the five beeps of a FIRE alert
C19_Witness ==
  /\ rxAccepted = 1 /\ rxLastType = T_FIRE
  /\ ~buzzer.active /\ ~buzzerPin /\ rxBeeps = 5

RxAccepts == rxAccepted' = rxAccepted + 1

\* C20: with a working OLED, once an alert has been accepted the display is
\* back on the listening screen after a loop iteration exactly when more
\* than 15000 ms have passed since the latest accepted alert (at 15000 ms
\* the alert is still shown); and the iteration that accepts an alert shows
\* it and starts the 15000 ms anew from its own time.
C20_DisplayTimeout ==
  /\ [](displayReady /\ rxAccepted > 0
          => /\ screen = "listening" <=> rxClock - lastAlertTime > 15000
             /\ screen # "listening" => screen = rxLastType /\ alertDisplayed)
  /\ [][RxAccepts => /\ lastAlertTime' = rxClock'
                     /\ alertDisplayed'
                     /\ displayReady => screen' = rxLastType']_vars

\* a second alert restarted the timeout, and the display went back to the
\* listening screen 15001 ms after it, having still shown it at 15000 ms
C20_Witness ==
  /\ displayReady /\ rxAccepted = 2
  /\ lastAlertTime > 0
  /\ rxClock - lastAlertTime = 15001
  /\ screen = "listening" /\ ~alertDisplayed

-----------------------------------------------------------------------------
(* Claims about the order and the bookkeeping of the relay's steps *)

\* C21: when the relay forwards a message, the message is in the cache as
\* the transmission begins, and the same text taken by the very next
\* iteration, less than DEDUPE_WINDOW ms later, is dropped as a duplicate.
C21_CachedBeforeForward ==
  [][/\ (Reception /\ relayOutcome' = "forward")
          => /\ relayTx'.cached
             /\ isDuplicate(messageCache', relayMsg', relayClock')
     /\ (/\ relayOutcome = "forward"
         /\ Reception
         /\ relayMsg' = relayMsg
         /\ relayClock' - relayClock < DEDUPE_WINDOW)
          => /\ relayOutcome' = "duplicate"
             /\ relayTx' = NoTx]_vars

\* the copy that came back PacketGap ms after a forward whose send failed
C21_Witness ==
  /\ relayOutcome = "duplicate"
  /\ messagesReceived = 2
  /\ recordCount = 1
  /\ relayClock - lastRec[relayMsg].at = PacketGap
  /\ messagesForwardedLoRa + messagesForwardedEspNow = 0

Recorded == recordCount' = recordCount + 1

\* the slot the k-th recorded message belongs to
SlotOf(k) == (k - 1) % 10

\* C22: the k-th message recorded goes to slot (k - 1) mod 10 with the time
\* of its recording, whatever the lookups found, and no other slot and no
\* other step changes the cache; the ring index stays within 0..9, one slot
\* past the latest record; so the cache holds the latest min(k, 10) records,
\* each text recorded among them with its record time, and empty slots
\* beyond them.
C22_StrictRingOrder ==
  /\ [](/\ cacheIndex \in 0..9
        /\ cacheIndex = recordCount % 10
        /\ \A i \in 0..9 : (i >= recordCount => messageCache[i] = EmptySlot)
        /\ \A m \in DOMAIN lastRec :
             (recordCount - lastRec[m].rec < 10
                => messageCache[SlotOf(lastRec[m].rec)]
                     = [msg |-> m, timestamp |-> lastRec[m].at]))
  /\ [][/\ Recorded
            => /\ messageCache'[SlotOf(recordCount')]
                     = [msg |-> relayMsg', timestamp |-> relayClock']
                /\ \A i \in 0..9 :
                     (i = SlotOf(recordCount')
                        \/ messageCache'[i] = messageCache[i])
        /\ (~Recorded => UNCHANGED << messageCache, cacheIndex >>)]_vars

\* the 11th record has overwritten slot 0 and the index stands at 1
C22_Witness ==
  /\ recordCount = 11
  /\ cacheIndex = 1
  /\ relayOutcome = "forward"
  /\ messageCache[0] = [msg |-> relayMsg, timestamp |-> relayClock]
  /\ messageCache[1].timestamp < relayClock

\* an iteration of the relay's loop() that found a packet
PacketTaken == relayClock' # relayClock /\ relayMsg' # NoPacket

\* C23: an iteration of the relay's loop() takes no packet or one.  A packet
\* taken is counted once in messagesReceived and ends, within the iteration,
\* in exactly one of three ways: dropped as invalid (nothing else counted,
\* recorded or sent), dropped as a duplicate (the duplicate counter up by
\* one, nothing recorded or sent), or recorded and handed to one send.  An
\* iteration without a packet counts and sends nothing.
C23_OnePacketOneOutcome ==
  [][/\ PacketTaken
          => /\ messagesReceived' = messagesReceived + 1
             /\ \/ /\ relayOutcome' = "invalid"
                   /\ relayTx' = NoTx
                   /\ ForwardedUnchanged
                   /\ UNCHANGED << messagesDuplicate, recordCount >>
                \/ /\ relayOutcome' = "duplicate"
                   /\ relayTx' = NoTx
                   /\ ForwardedUnchanged
                   /\ messagesDuplicate' = messagesDuplicate + 1
                   /\ UNCHANGED recordCount
                \/ /\ relayOutcome' = "forward"
                   /\ relayTx'.msg = relayMsg'
                   /\ relayTx'.via \in {"espnow", "lora"}
                   /\ recordCount' = recordCount + 1
                   /\ UNCHANGED messagesDuplicate
     /\ (relayClock' # relayClock /\ relayMsg' = NoPacket)
          => /\ relayOutcome' = "idle"
             /\ relayTx' = NoTx
             /\ ForwardedUnchanged
             /\ UNCHANGED << messagesReceived, messagesDuplicate,
                             recordCount >>]_vars

\* three packets, one of each outcome, the invalid one last
C23_Witness ==
  /\ messagesReceived = 3
  /\ recordCount = 1
  /\ messagesDuplicate = 1
  /\ relayOutcome = "invalid"

\* 1 for a send that reported success, 0 for one that failed
Counted(ok) == IF ok THEN 1 ELSE 0

\* C24: a forward of the hybrid relay attempts one send, by ESP-NOW or by
\* LoRa; the forwarded counter of that transport goes up by one if the send
\* reported success and stays if it failed, and the forwarded counter of the
\* other transport stays.
C24_OneTransportCounted ==
  [][(PacketTaken /\ relayOutcome' = "forward")
       => /\ relayTx'.via \in {"espnow", "lora"}
          /\ relayTx'.via = "espnow"
               => /\ messagesForwardedEspNow'
                       = messagesForwardedEspNow + Counted(relayTx'.ok)
                  /\ messagesForwardedLoRa' = messagesForwardedLoRa
          /\ relayTx'.via = "lora"
               => /\ messagesForwardedLoRa'
                       = messagesForwardedLoRa + Counted(relayTx'.ok)
                  /\ messagesForwardedEspNow' = messagesForwardedEspNow]_vars

\* three forwards: one counted for each transport, one that failed
C24_Witness ==
  /\ recordCount = 3
  /\ messagesForwardedEspNow = 1
  /\ messagesForwardedLoRa = 1
  /\ relayOutcome = "forward"
  /\ relayTx.ok

-----------------------------------------------------------------------------
(* Claims about the plain relay *)

\* what loop() and forwardMessage write, the radio's packet aside
plainWork == << messageCache, cacheIndex, messagesReceived,
               messagesForwardedLoRa, messagesDuplicate, lastStatsDisplay,
               rxLedOffTime, txLedOffTime, rxLedPin, txLedPin, relayMsg,
               relayOutcome, relayTx, recordCount >>

\* C25: the plain relay enters a delay of 50 to 150 ms for every message it
\* forwards, and sends when it is over.  While the delay runs the node does
\* nothing: no packet is taken or counted, no LED is switched, no statistics
\* are reported, the cache stays; the first thing to happen is the send, that
\* many milliseconds later, and the RX LED and the statistics wait for it.
C25_StalledDuringJitter ==
  [][/\ (relayVariant = "plain" /\ relayOutcome' = "forward" /\ Reception)
          => relayPc' = "delay" /\ relayTx' = NoTx
     /\ relayPc' = "delay" => relayJitter' \in 50..150
     /\ relayPc = "delay"
          => \/ /\ relayPc' = "delay"
                /\ UNCHANGED << plainWork, relayClock, relayJitter >>
             \/ /\ relayPc' = "loop"
                /\ relayClock' = relayClock + relayJitter
                /\ relayTx'.msg = relayMsg
                /\ UNCHANGED << messagesReceived, messagesDuplicate,
                                messageCache, cacheIndex, rxLedPin,
                                rxLedOffTime, relayMsg >>]_vars

\* the relay 149 ms into its delay: a copy of the message being forwarded
\* waits at the radio, and the TX LED that the forward before lit is still on
\* past its time
C25_Witness ==
  /\ relayPc = "delay"
  /\ relayJitter = 149
  /\ relayAir = relayMsg
  /\ recordCount = 2
  /\ txLedPin
  /\ relayClock + relayJitter >= txLedOffTime

-----------------------------------------------------------------------------
(* Claims about the transmitter's state after an alert *)

\* C26: an iteration that sends a QUAKE alert leaves the vote window, the
\* write index and the filtered magnitude as every iteration leaves them
\* (the new vote written at the index, the index moved on by one, the
\* magnitude filtered once) and stamps lastQuakeAlert; so, once an alert has
\* been sent, an iteration whose last 10 votes still hold 4 or more sends
\* the next alert exactly when more than 5000 ms have passed since it.
C26_WindowKeptAfterAlert ==
  [][(TxTick /\ accelReady)
       => /\ QuakeSent(txSent')
               => /\ quakeWindow' =
                       [quakeWindow EXCEPT ![windowIndex] = QuakeVote(filteredAccel')]
                  /\ windowIndex' = (windowIndex + 1) % 10
                  /\ \E raw \in {QUIET, SHAKE} :
                       filteredAccel' = QuakeFilter(raw, filteredAccel)
                  /\ lastQuakeAlert' = txClock'
          /\ (txSentLog["QUAKE"].n > 0 /\ SumSeq(txVotes') >= 4)
               => (QuakeSent(txSent') <=> txClock' - lastQuakeAlert > 5000)]_vars

\* a second QUAKE alert, sent on votes of which some were cast before the
\* first alert
C26_Witness ==
  /\ QuakeSent(txSent)
  /\ txSentLog["QUAKE"].n = 2
  /\ Len(txVotes) = WINDOW_SIZE
  /\ SumSeq(txVotes) >= 4
  /\ txClock <= 2 * QUAKE_MIN_INTERVAL + 3 * TxStep

-----------------------------------------------------------------------------
(* Claims about the relay's buffer *)

\* the bytes of the payload that msg[64] has room for
Fits(payload) == SubSeq(payload, 1, Min(Len(payload), 63))

\* C27: whatever the length of the payload, the relay's buffer holds its
\* first 63 bytes at most, and what is cached and what is transmitted is
\* the buffer's text; a payload of 63 bytes or fewer is therefore cached
\* and forwarded byte for byte.
C27_BufferBoundedAndKept ==
  [][\A payload \in LongTexts, dt \in {PacketGap, LongStep}, sendOk \in BOOLEAN :
       RelayLoop(payload, dt, sendOk)
         => /\ Len(relayMsg') <= 63
            /\ relayMsg' = Fits(payload)
            /\ relayOutcome' = "forward"
                 => /\ relayTx'.msg = relayMsg'
                    /\ messageCache'[cacheIndex].msg = relayMsg'
                    /\ Len(payload) <= 63
                         => /\ relayTx'.msg = payload
                            /\ messageCache'[cacheIndex].msg = payload]_vars

\* two payloads of 62 and 63 bytes forwarded, and after them one of more
\* than 63 bytes dropped as the duplicate of the second
C27_Witness ==
  /\ Len(relayMsg) = 63
  /\ relayOutcome = "duplicate"
  /\ messagesReceived = 3
  /\ messagesDuplicate = 1
  /\ \E i \in 0..(CACHE_SIZE - 1) : messageCache[i].msg = Padded(NearFire, 63)
  /\ \E i \in 0..(CACHE_SIZE - 1) : messageCache[i].msg = Padded(FarFire(0), 62)

-----------------------------------------------------------------------------
(* Claims about the transmitter's first seconds *)

\* C28: while the transmitter's clock is at 5000 ms or below, no FIRE and no
\* QUAKE alert has been sent, whatever the sensors have read.
C28_NoAlertInFirstCooldown ==
  txClock <= 5000
    => /\ txSent = << >>
       /\ txSentLog["FIRE"].n = 0
       /\ txSentLog["QUAKE"].n = 0
       /\ lastFireAlert = 0
       /\ lastQuakeAlert = 0

\* the iteration at 5000 ms: the flame counter it checked was 3 or more and
\* the window held 4 votes or more, and nothing was sent
C28_Witness ==
  /\ txClock = 5000
  /\ txCountChecked >= FLAME_SAMPLES_NEEDED
  /\ fireCount >= FLAME_SAMPLES_NEEDED
  /\ SumSeq(txVotes) >= QUAKE_VOTES_NEEDED
  /\ txSent = << >>
  /\ txSentLog["FIRE"].n = 0
  /\ txSentLog["QUAKE"].n = 0

-----------------------------------------------------------------------------
(* Claims about the cache on a duplicate *)

\* C29: an iteration that drops a duplicate leaves every slot of the cache,
\* text and timestamp, and the ring index as they were; so a valid text that
\* arrives 5000 ms or more after it was last recorded is forwarded, however
\* recently a duplicate of it was seen.
C29_HitDoesNotRefresh ==
  [][/\ (Reception /\ relayOutcome' = "duplicate")
          => UNCHANGED << messageCache, cacheIndex >>
     /\ (/\ Reception
         /\ isValidMessage(relayMsg')
         /\ relayMsg' \in DOMAIN lastRec
         /\ relayClock' - lastRec[relayMsg'].at >= 5000)
          => relayOutcome' = "forward"]_vars

\* a text forwarded, dropped as a duplicate, and forwarded again 5000 ms
\* after the first forward
C29_Witness ==
  /\ relayOutcome = "forward"
  /\ messagesReceived = 3
  /\ messagesDuplicate = 1
  /\ recordCount = 2
  /\ relayMsg \in DOMAIN lastRec
  /\ lastRec[relayMsg].prevRec = 1
  /\ lastRec[relayMsg].at - lastRec[relayMsg].prevAt = 5000

-----------------------------------------------------------------------------
(* Claims about the cache after a failed forward *)

\* C30: a forward whose send fails leaves its message in the cache, stamped
\* with the iteration's time; the same text taken by the next iteration less
\* than 5000 ms later is dropped and counted as a duplicate, with the
\* forwarded counters as they were.
C30_FailedForwardStaysCached ==
  [][/\ (Reception /\ relayOutcome' = "forward" /\ ~relayTx'.ok)
          => /\ messageCache'[cacheIndex] =
                  [msg |-> relayMsg', timestamp |-> relayClock']
             /\ ForwardedUnchanged
     /\ (/\ relayOutcome = "forward"
         /\ ~relayTx.ok
         /\ Reception
         /\ relayMsg' = relayMsg
         /\ relayClock' - relayClock < 5000)
          => DroppedAsDuplicate]_vars

\* a text whose only forward failed, dropped as a duplicate when it came again
C30_Witness ==
  /\ relayOutcome = "duplicate"
  /\ messagesReceived = 2
  /\ messagesDuplicate = 1
  /\ recordCount = 1
  /\ messagesForwardedLoRa = 0
  /\ messagesForwardedEspNow = 0
  /\ relayMsg \in DOMAIN lastRec
  /\ relayClock - lastRec[relayMsg].at < 5000

-----------------------------------------------------------------------------
(* Claims about the relay's statistics *)

\* the relay's statistics counters
relayCounters == << messagesReceived, messagesForwardedLoRa,
                   messagesForwardedEspNow, messagesDuplicate >>

\* C31: in every state of the hybrid relay the forwards over LoRa, the
\* forwards over ESP-NOW and the duplicates together are no more than the
\* packets received, and no step makes any of the four counters smaller.
C31_CountersBounded ==
  /\ [](Hybrid
          => messagesForwardedLoRa + messagesForwardedEspNow + messagesDuplicate
               <= messagesReceived)
  /\ [][\A i \in 1..4 : relayCounters'[i] >= relayCounters[i]]_vars

\* three packets: one forwarded over each transport and one duplicate, and
\* the iteration that took the last of them moved the duplicate counter
C31_Witness ==
  /\ Hybrid
  /\ messagesReceived = 3
  /\ messagesForwardedLoRa = 1
  /\ messagesForwardedEspNow = 1
  /\ messagesDuplicate = 1
  /\ relayOutcome = "duplicate"
  /\ relayTx = NoTx

-----------------------------------------------------------------------------
(* Claims about the transmitter's two detectors *)

\* C32: after every iteration of the transmitter, the flame counter is below
\* 3 or no more than 5000 ms lie between the last FIRE alert time and the
\* iteration's time: a counter of 3 or more is one the cooldown holds back.
C32_CounterHeldByCooldown ==
  fireCount < 3 \/ txClock - lastFireAlert <= 5000

\* a counter above 3, held back by the cooldown of an alert that was sent
C32_Witness ==
  /\ fireCount > FLAME_SAMPLES_NEEDED
  /\ txSentLog["FIRE"].n > 0
  /\ lastFireAlert > 0
  /\ txClock - lastFireAlert <= FIRE_MIN_INTERVAL
  /\ txSent = << >>

\* C33: the two detectors do not touch each other's state.  An iteration
\* that sends a FIRE alert updates the quake window, the filtered magnitude
\* and lastQuakeAlert as the quake detector alone decides, and one that sends
\* a QUAKE alert updates the flame counter and lastFireAlert as the fire
\* detector alone decides; when one iteration sends both, FIRE goes first.
C33_DetectorsIndependent ==
  [][(TxTick /\ accelReady)
       => /\ FireSent(txSent')
               => /\ quakeWindow' =
                       [quakeWindow EXCEPT ![windowIndex] = QuakeVote(filteredAccel')]
                  /\ \E raw \in {QUIET, SHAKE} :
                       filteredAccel' = QuakeFilter(raw, filteredAccel)
                  /\ QuakeSent(txSent')
                       <=> /\ SumSeq(txVotes') >= 4
                           /\ txClock' - lastQuakeAlert > 5000
                  /\ lastQuakeAlert' = IF QuakeSent(txSent') THEN txClock'
                                       ELSE lastQuakeAlert
          /\ QuakeSent(txSent')
               => /\ FireSent(txSent')
                       <=> /\ UpdatedCount >= 3
                           /\ txClock' - lastFireAlert > 5000
                  /\ fireCount' = IF FireSent(txSent') THEN 0 ELSE UpdatedCount
                  /\ lastFireAlert' = IF FireSent(txSent') THEN txClock'
                                      ELSE lastFireAlert
          /\ (FireSent(txSent') /\ QuakeSent(txSent'))
               => /\ Len(txSent') = 2
                  /\ BeginsWith(txSent'[1], S_FIRE)
                  /\ BeginsWith(txSent'[2], S_QUAKE)]_vars

\* one iteration that sent a FIRE alert and, after it, a QUAKE alert
C33_Witness ==
  /\ Len(txSent) = 2
  /\ BeginsWith(txSent[1], S_FIRE)
  /\ BeginsWith(txSent[2], S_QUAKE)
  /\ fireCount = 0
  /\ lastFireAlert = txClock
  /\ lastQuakeAlert = txClock
  /\ SumSeq(txVotes) >= QUAKE_VOTES_NEEDED

====
